---- MODULE Spec2Model ----
(***************************************************************************)
(* Model of generate_id_ner_faker.py: the noise engine (apply_noise,       *)
(* _apply_character_noise, apply_field_typo, _weighted_choice) and the two *)
(* template assemblers (generate_simple_format, generate_bilingual_format) *)
(* of FakerIDGenerator, with the spans checked as verify_positions.py      *)
(* checks them.                                                            *)
(*                                                                         *)
(* Texts are TLA+ strings.  Probabilities and the values of random.random()*)
(* are counted in tenths: the draw d stands for d/10, the probability p    *)
(* for p/10.  Python dicts are sequences of <<key, value>> pairs in        *)
(* insertion order.  A call that raises IndexError returns Raise.          *)
(***************************************************************************)
EXTENDS Integers, Sequences, FiniteSets, TLC

VARIABLES
    noise,            \* noise_enabled and the seven probabilities of the generator
    tables,           \* word_replacements, spacing_errors, char_subs, extra_chars,
                      \* field_typos, signature_noise
    pc,               \* position inside generate_batch / generate_one / generate_*_format
    fmt,              \* format chosen by generate_one
    parts,            \* local `parts` of the running format generator
    entities,         \* local `entities`
    pos,              \* local `pos`
    surname,          \* local `surname`
    given_names_list, \* local `given_names_list`
    results,          \* list built by generate_batch
    remaining,        \* samples generate_batch still has to build
    deviations,       \* number of non-default random outcomes taken so far
    segment,          \* branch the step just made took at an optional segment
    call,             \* last direct call of a noise-engine function (arguments and draws)
    ret,              \* its return value
    main              \* a run of main(), or a direct call of the constructor

vars == <<noise, tables, pc, fmt, parts, entities, pos, surname, given_names_list,
          results, remaining, deviations, segment, call, ret, main>>

(***************************************************************************)
(* Bounds                                                                  *)
(***************************************************************************)
MaxDeviations == 1   \* random outcomes of a sample that differ from the default outcome
MaxCount == 1        \* largest `count` given to generate_batch
MaxLen == 2          \* longest text given to a directly called noise function

(***************************************************************************)
(* Python string and list primitives                                       *)
(***************************************************************************)
Min(a, b) == IF a < b THEN a ELSE b
Max(a, b) == IF a > b THEN a ELSE b

\* A str is a sequence of code points.  TLC stores the strings of a state one
\* byte per character, so the six non-ASCII code points of the source's
\* literals are written as ASCII characters that occur nowhere else in the
\* texts, one for one (lengths and offsets are unchanged):
\*   & is U+00C9 (E acute),   $ is U+00C7 (C cedilla),  * is U+00B0 (degree),
\*   @ is U+00E9 (e acute),   % is U+00E7 (c cedilla),  ! is U+00E0 (a grave)

\* text[i] for a 0-based index i
CharAt(text, i) == SubSeq(text, i + 1, i + 1)

\* text[start:end]
Slice(text, start, end) ==
    LET n == Len(text)
        s == IF start < 0 THEN Max(n + start, 0) ELSE Min(start, n)
        e == IF end < 0 THEN Max(n + end, 0) ELSE Min(end, n)
    IN IF s >= e THEN "" ELSE SubSeq(text, s + 1, e)

\* text.startswith(sub, i) for a 0-based index i
MatchAt(text, sub, i) ==
    /\ i + Len(sub) <= Len(text)
    /\ SubSeq(text, i + 1, i + Len(sub)) = sub

\* sub in text
Contains(text, sub) == \E i \in 0..Len(text) : MatchAt(text, sub, i)

RECURSIVE ReplaceFrom(_, _, _, _)
\* text[i:].replace(old, new): an empty old goes between all characters, any
\* other old is replaced at its leftmost occurrences, left to right
ReplaceFrom(text, old, new, i) ==
    IF old = ""
    THEN IF i >= Len(text) THEN new
         ELSE new \o CharAt(text, i) \o ReplaceFrom(text, old, new, i + 1)
    ELSE LET hits == {j \in i..(Len(text) - Len(old)) : MatchAt(text, old, j)}
         IN IF hits = {} THEN Slice(text, Min(i, Len(text)), Len(text))
            ELSE LET j == CHOOSE h \in hits : \A k \in hits : h <= k
                 IN Slice(text, i, j) \o new \o ReplaceFrom(text, old, new, j + Len(old))

\* text.replace(old, new)
Replace(text, old, new) == ReplaceFrom(text, old, new, 0)

RECURSIVE Join(_)
\* "".join(ps)
Join(ps) == IF ps = <<>> THEN "" ELSE Head(ps) \o Join(Tail(ps))

\* d[key] / key in d, for a dict held as a sequence of <<key, value>> pairs
HasKey(d, key) == \E i \in 1..Len(d) : d[i][1] = key
Lookup(d, key) == d[CHOOSE i \in 1..Len(d) : d[i][1] = key][2]

\* results of calls that may raise
Ok(s) == [raised |-> FALSE, value |-> s]
Raise == [raised |-> TRUE, value |-> ""]

\* random.choice(seq) with the element chosen by `pick`; IndexError on an empty seq
Choice(seq, pick) ==
    IF Len(seq) = 0 THEN Raise ELSE Ok(seq[((pick - 1) % Len(seq)) + 1])

\* values random.random() takes, in tenths
Draws == 0..9
\* a low and a high value of random.random(): the two sides of every threshold
CoinDraws == {0, 9}
\* indices random.choice draws from a list of variants
Picks == 1..2

(***************************************************************************)
(* Noise engine                                                            *)
(***************************************************************************)
RECURSIVE WalkChoices_strict(_, _, _, _)
\* WalkChoices comparing with < where the code compares with <=
WalkChoices_strict(choices_dict, rand_val, i, cumulative) ==
    IF i > Len(choices_dict)
    THEN (IF Len(choices_dict) = 0 THEN Raise
          ELSE Ok(choices_dict[Len(choices_dict)][1]))
    ELSE IF rand_val < cumulative + choices_dict[i][2]
         THEN Ok(choices_dict[i][1])
         ELSE WalkChoices_strict(choices_dict, rand_val, i + 1,
                                 cumulative + choices_dict[i][2])

RECURSIVE WalkChoices(_, _, _, _)
\* the loop of _weighted_choice from entry i on, and its fallback to the last key
WalkChoices(choices_dict, rand_val, i, cumulative) ==
    IF i > Len(choices_dict)
    THEN (IF Len(choices_dict) = 0 THEN Raise
          ELSE Ok(choices_dict[Len(choices_dict)][1]))
    ELSE IF rand_val <= cumulative + choices_dict[i][2]
         THEN Ok(choices_dict[i][1])
         ELSE WalkChoices(choices_dict, rand_val, i + 1, cumulative + choices_dict[i][2])

\* _weighted_choice(choices_dict) when random.random() returns rand_val
_weighted_choice(choices_dict, rand_val) == WalkChoices(choices_dict, rand_val, 1, 0)

\* the four draws (and the filler pick) one character consumes in _apply_character_noise
QuietChar == [miss |-> 9, sub |-> 9, dbl |-> 9, extra |-> 9, pick |-> 1]
CharDraw ==
    { [miss |-> m, sub |-> s, dbl |-> d, extra |-> 9, pick |-> 1] :
          m \in CoinDraws, s \in CoinDraws, d \in CoinDraws }
    \cup
    { [miss |-> m, sub |-> s, dbl |-> d, extra |-> 0, pick |-> k] :
          m \in CoinDraws, s \in CoinDraws, d \in CoinDraws, k \in Picks }

\* draws of the character at 1-based position i: cd.head lists the draws of the
\* first characters, every later character draws cd.rest
CharDrawAt(cd, i) == IF i <= Len(cd.head) THEN cd.head[i] ELSE cd.rest

\* the body of the loop of _apply_character_noise for the character at 0-based
\* index i: what it appends to result
CharNoiseAt(text, cd, i) ==
    LET char == CharAt(text, i)
        d == CharDrawAt(cd, i + 1)
    IN IF d.miss < noise.missing_char_prob THEN Ok("")
       ELSE LET emitted == IF HasKey(tables.char_subs, char) /\ d.sub < noise.char_sub_prob
                           THEN Lookup(tables.char_subs, char) ELSE char
                doubled == IF d.dbl < noise.double_char_prob THEN char ELSE ""
                extra == IF d.extra < noise.extra_char_prob
                         THEN Choice(tables.extra_chars, d.pick) ELSE Ok("")
            IN IF extra.raised THEN Raise
               ELSE Ok(emitted \o doubled \o extra.value)

RECURSIVE CharNoiseRange(_, _, _, _)
\* the loop over the characters at indices lo .. hi - 1, as the loop over its
\* first half followed by the loop over its second half
CharNoiseRange(text, cd, lo, hi) ==
    IF lo >= hi THEN Ok("")
    ELSE IF hi = lo + 1 THEN CharNoiseAt(text, cd, lo)
    ELSE LET mid == (lo + hi) \div 2
             first == CharNoiseRange(text, cd, lo, mid)
             rest == CharNoiseRange(text, cd, mid, hi)
         IN IF first.raised \/ rest.raised THEN Raise
            ELSE Ok(first.value \o rest.value)

\* the loop of _apply_character_noise from the character at 0-based index i on
CharNoiseFrom(text, cd, i) == CharNoiseRange(text, cd, i, Len(text))

\* _apply_character_noise(text) under the per-character draws cd
_apply_character_noise(text, cd) == CharNoiseFrom(text, cd, 0)

RECURSIVE ReplaceEach(_, _, _, _)
\* for original, variants in table.items(): if original in text:
\*     text = text.replace(original, random.choice(variants))
ReplaceEach(text, table, pick, i) ==
    IF i > Len(table) THEN Ok(text)
    ELSE IF Contains(text, table[i][1])
         THEN LET v == Choice(table[i][2], pick)
              IN IF v.raised THEN Raise
                 ELSE ReplaceEach(Replace(text, table[i][1], v.value), table, pick, i + 1)
         ELSE ReplaceEach(text, table, pick, i + 1)

\* apply_noise firing a stage when its draw equals the probability (<= for <)
apply_noise_inclusive(text, allow_noise, dr) ==
    IF ~noise.noise_enabled \/ ~allow_noise \/ dr.gate > noise.global_prob THEN Ok(text)
    ELSE LET t1 == IF dr.word <= noise.word_noise_prob
                   THEN ReplaceEach(text, tables.word_replacements, dr.wpick, 1)
                   ELSE Ok(text)
             t2 == IF t1.raised THEN Raise
                   ELSE IF dr.spacing <= noise.spacing_noise_prob
                   THEN ReplaceEach(t1.value, tables.spacing_errors, dr.spick, 1)
                   ELSE t1
         IN IF t2.raised THEN Raise
            ELSE IF dr.char <= noise.char_sub_prob + noise.extra_char_prob
                                 + noise.missing_char_prob
            THEN _apply_character_noise(t2.value, dr.cd)
            ELSE t2

\* apply_noise counting the duplication probability in the gate of its
\* character stage
apply_noise_double_gate(text, allow_noise, dr) ==
    IF ~noise.noise_enabled \/ ~allow_noise \/ dr.gate > noise.global_prob THEN Ok(text)
    ELSE LET t1 == IF dr.word < noise.word_noise_prob
                   THEN ReplaceEach(text, tables.word_replacements, dr.wpick, 1)
                   ELSE Ok(text)
             t2 == IF t1.raised THEN Raise
                   ELSE IF dr.spacing < noise.spacing_noise_prob
                   THEN ReplaceEach(t1.value, tables.spacing_errors, dr.spick, 1)
                   ELSE t1
         IN IF t2.raised THEN Raise
            ELSE IF dr.char < noise.char_sub_prob + noise.extra_char_prob
                                + noise.missing_char_prob + noise.double_char_prob
            THEN _apply_character_noise(t2.value, dr.cd)
            ELSE t2

\* apply_noise(text, allow_noise) under the draws dr
apply_noise(text, allow_noise, dr) ==
    IF ~noise.noise_enabled \/ ~allow_noise \/ dr.gate > noise.global_prob THEN Ok(text)
    ELSE LET t1 == IF dr.word < noise.word_noise_prob
                   THEN ReplaceEach(text, tables.word_replacements, dr.wpick, 1)
                   ELSE Ok(text)
             t2 == IF t1.raised THEN Raise
                   ELSE IF dr.spacing < noise.spacing_noise_prob
                   THEN ReplaceEach(t1.value, tables.spacing_errors, dr.spick, 1)
                   ELSE t1
         IN IF t2.raised THEN Raise
            ELSE IF dr.char < noise.char_sub_prob + noise.extra_char_prob
                                + noise.missing_char_prob
            THEN _apply_character_noise(t2.value, dr.cd)
            ELSE t2

\* index of the first key of field_typos that occurs in field_text, 0 when none does
FirstPartial(field_text) ==
    IF \E i \in 1..Len(tables.field_typos) : Contains(field_text, tables.field_typos[i][1])
    THEN CHOOSE i \in 1..Len(tables.field_typos) :
            /\ Contains(field_text, tables.field_typos[i][1])
            /\ \A j \in 1..(i - 1) : ~Contains(field_text, tables.field_typos[j][1])
    ELSE 0

\* apply_field_typo trying the substring match before the exact match
apply_field_typo_partial_first(field_text, dr) ==
    IF FirstPartial(field_text) # 0
    THEN LET e == tables.field_typos[FirstPartial(field_text)]
             v == Choice(e[2], dr.tpick)
         IN IF v.raised THEN Raise ELSE Ok(Replace(field_text, e[1], v.value))
    ELSE IF HasKey(tables.field_typos, field_text)
    THEN Choice(Lookup(tables.field_typos, field_text), dr.tpick)
    ELSE apply_noise(field_text, TRUE, dr)

\* apply_field_typo(field_text) under the draws dr
apply_field_typo(field_text, dr) ==
    IF HasKey(tables.field_typos, field_text)
    THEN Choice(Lookup(tables.field_typos, field_text), dr.tpick)
    ELSE IF FirstPartial(field_text) # 0
    THEN LET e == tables.field_typos[FirstPartial(field_text)]
             v == Choice(e[2], dr.tpick)
         IN IF v.raised THEN Raise ELSE Ok(Replace(field_text, e[1], v.value))
    ELSE apply_noise(field_text, TRUE, dr)

\* draws under which apply_noise and apply_field_typo leave every text alone
\* (unless a field typo matches, which consumes no gate)
QuietDraws ==
    [gate |-> 9, word |-> 9, spacing |-> 9, char |-> 9,
     wpick |-> 1, spick |-> 1, tpick |-> 1, cd |-> [head |-> <<>>, rest |-> QuietChar]]

(***************************************************************************)
(* Noise settings and lookup tables a generator can be constructed with    *)
(***************************************************************************)
\* _set_zero_noise
CleanNoise ==
    [noise_enabled |-> FALSE, global_prob |-> 0, word_noise_prob |-> 0,
     spacing_noise_prob |-> 0, char_sub_prob |-> 0, extra_char_prob |-> 0,
     missing_char_prob |-> 0, double_char_prob |-> 0]
\* custom settings with use_custom and every probability 0
ZeroNoise == [CleanNoise EXCEPT !.noise_enabled = TRUE]
\* a preset with every mechanism switched on
HeavyNoise ==
    [noise_enabled |-> TRUE, global_prob |-> 5, word_noise_prob |-> 5,
     spacing_noise_prob |-> 5, char_sub_prob |-> 2, extra_char_prob |-> 2,
     missing_char_prob |-> 2, double_char_prob |-> 2]
\* a preset that only duplicates characters
DoubleOnlyNoise ==
    [noise_enabled |-> TRUE, global_prob |-> 5, word_noise_prob |-> 0,
     spacing_noise_prob |-> 0, char_sub_prob |-> 0, extra_char_prob |-> 0,
     missing_char_prob |-> 0, double_char_prob |-> 5]

NoiseSettings == {CleanNoise, ZeroNoise, HeavyNoise, DoubleOnlyNoise}

\* the table defaults of __init__ when config.json has none of the sections
EmptyTables ==
    [word_replacements |-> <<>>, spacing_errors |-> <<>>, char_subs |-> <<>>,
     extra_chars |-> <<" ", ".", ",", "-">>, field_typos |-> <<>>,
     signature_noise |-> <<>>, simple_probs |-> <<>>, bilingual_probs |-> <<>>]

\* tables over the short texts the noise functions are called on directly
ShortTables ==
    [word_replacements |-> << <<"la", <<"Ia", "">> >> >>,
     spacing_errors |-> << <<"a", <<"a ", " a">> >> >>,
     char_subs |-> << <<"l", "1">> >>,
     extra_chars |-> <<".", " ">>,
     field_typos |-> << <<"la", <<"La", "1a">> >>, <<"l", <<"I">> >> >>,
     signature_noise |-> <<>>, simple_probs |-> <<>>, bilingual_probs |-> <<>>]
\* the same with the two field_typos entries in the other order
ShortTablesSwapped ==
    [ShortTables EXCEPT !.field_typos = << <<"l", <<"I">> >>, <<"la", <<"La", "1a">> >> >>]
\* an empty filler pool
ShortTablesNoFiller == [ShortTables EXCEPT !.extra_chars = <<>>]

FnTables == {EmptyTables, ShortTables, ShortTablesSwapped, ShortTablesNoFiller}

Alphabet == {"l", "a"}
RECURSIVE TextsUpTo(_)
TextsUpTo(n) ==
    IF n = 0 THEN {""}
    ELSE TextsUpTo(n - 1) \cup {t \o c : t \in TextsUpTo(n - 1), c \in Alphabet}
Texts == TextsUpTo(MaxLen)

\* per-character draws: the same draws for every character, or draws for the
\* first character only
CharPatterns ==
    { [head |-> <<>>, rest |-> d] : d \in CharDraw }
    \cup { [head |-> <<d>>, rest |-> QuietChar] : d \in CharDraw }

RECURSIVE CharDrawSeqs(_)
\* every sequence of n per-character draws
CharDrawSeqs(n) ==
    IF n = 0 THEN {<<>>}
    ELSE {Append(h, d) : h \in CharDrawSeqs(n - 1), d \in CharDraw}

\* the draws apply_noise consumes once its gate is passed
StageDraws ==
    { [QuietDraws EXCEPT !.word = w, !.spacing = s, !.char = c,
                         !.wpick = k, !.spick = k, !.cd = p] :
          w \in CoinDraws, s \in CoinDraws, c \in CoinDraws, k \in Picks,
          p \in CharPatterns }

\* tables _weighted_choice is called on: the built-in tables of the two formats,
\* a table summing to less than 1, a one-entry table
ChoiceTables ==
    { << <<"RF ", 3>>, <<"3F ", 2>>, <<"RERE ", 1>>, <<"none", 4>> >>,
      << <<"MA ", 3>>, <<"random_2letter", 2>>, <<"random_digits", 1>>, <<"none", 4>> >>,
      << <<"RF ", 3>>, <<"none", 4>> >>,
      << <<"none", 2>>, <<"RF ", 0>>, <<"3F ", 3>> >>,
      << <<"RF ", 0>> >> }

NoCall == [fn |-> "none", text |-> "", allow_noise |-> FALSE, dr |-> QuietDraws,
           choices_dict |-> <<>>, rand_val |-> 0]

(***************************************************************************)
(* Direct calls of the noise engine                                        *)
(***************************************************************************)
\* no run of main() and no constructor call is being followed
NoMain ==
    [pc |-> "none", entry |-> "none", list_locales |-> FALSE, all_locales |-> FALSE, locales_arg |-> "",
     noise_level |-> "", count |-> 0, config |-> <<>>, locales |-> <<>>, invalid |-> <<>>,
     returned |-> "", generator |-> FALSE, batches |-> 0, written |-> FALSE]

\* the step just made was not at an optional segment
NoSegment == [at |-> "none", included |-> FALSE, chosen |-> ""]

GenIdle ==
    /\ pc = "idle" /\ fmt = "none" /\ parts = <<>> /\ entities = <<>> /\ pos = 0
    /\ surname = "" /\ given_names_list = <<>> /\ results = <<>> /\ remaining = 0
    /\ deviations = 0 /\ segment = NoSegment

InitNoise ==
    /\ noise \in NoiseSettings
    /\ tables \in FnTables
    /\ GenIdle
    /\ call = NoCall
    /\ ret = Ok("")
    /\ main = NoMain

\* one direct call is made on a freshly constructed generator
GenUnchanged ==
    UNCHANGED <<noise, tables, pc, fmt, parts, entities, pos, surname,
                given_names_list, results, remaining, deviations, segment, main>>

Call_apply_noise ==
    /\ call = NoCall
    /\ \E text \in Texts, allow_noise \in BOOLEAN, gate \in Draws :
      \E sd \in (IF noise.noise_enabled /\ allow_noise /\ gate <= noise.global_prob
                 THEN StageDraws ELSE {QuietDraws}) :
        LET dr == [sd EXCEPT !.gate = gate]
        IN /\ call' = [NoCall EXCEPT !.fn = "apply_noise", !.text = text,
                                     !.allow_noise = allow_noise, !.dr = dr]
           /\ ret' = apply_noise(text, allow_noise, dr)
           /\ GenUnchanged

Call_apply_character_noise ==
    /\ call = NoCall
    /\ \E text \in Texts :
      \E h \in CharDrawSeqs(Len(text)) :
        LET cd == [head |-> h, rest |-> QuietChar]
        IN /\ call' = [NoCall EXCEPT !.fn = "_apply_character_noise", !.text = text,
                                     !.dr = [QuietDraws EXCEPT !.cd = cd]]
           /\ ret' = _apply_character_noise(text, cd)
           /\ GenUnchanged

Call_apply_field_typo ==
    /\ call = NoCall
    /\ \E field_text \in Texts, tpick \in Picks, gate \in CoinDraws, c \in CoinDraws,
       d \in CharDraw :
        LET dr == [QuietDraws EXCEPT !.gate = gate, !.tpick = tpick, !.char = c,
                                     !.cd = [head |-> <<>>, rest |-> d]]
        IN /\ call' = [NoCall EXCEPT !.fn = "apply_field_typo", !.text = field_text,
                                     !.allow_noise = TRUE, !.dr = dr]
           /\ ret' = apply_field_typo(field_text, dr)
           /\ GenUnchanged

Call_weighted_choice ==
    /\ call = NoCall
    /\ \E choices_dict \in ChoiceTables, rand_val \in Draws :
        /\ call' = [NoCall EXCEPT !.fn = "_weighted_choice",
                                  !.choices_dict = choices_dict, !.rand_val = rand_val]
        /\ ret' = _weighted_choice(choices_dict, rand_val)
        /\ GenUnchanged

NextNoise ==
    \/ Call_apply_noise
    \/ Call_apply_character_noise
    \/ Call_apply_field_typo
    \/ Call_weighted_choice

SpecNoise == InitNoise /\ [][NextNoise]_vars

(***************************************************************************)
(* Value synthesizers                                                      *)
(***************************************************************************)
Cnt(b) == IF b THEN 1 ELSE 0

\* f"{n:02d}"
Pad2(n) == IF n < 10 THEN "0" \o ToString(n) ELSE ToString(n)

RECURSIVE Repeat(_, _)
\* "".join([s for _ in range(n)])
Repeat(s, n) == IF n = 0 THEN "" ELSE s \o Repeat(s, n - 1)

RECURSIVE LStrip(_)
LStrip(text) == IF Len(text) > 0 /\ CharAt(text, 0) = " " THEN LStrip(Slice(text, 1, Len(text)))
                ELSE text
RECURSIVE RStrip(_)
RStrip(text) == IF Len(text) > 0 /\ CharAt(text, Len(text) - 1) = " "
                THEN RStrip(Slice(text, 0, Len(text) - 1)) ELSE text
\* text.strip()
Strip(text) == RStrip(LStrip(text))

\* d.get(key, default)
Get(d, key, default) == IF HasKey(d, key) THEN Lookup(d, key) ELSE default

\* what faker.last_name().upper(), faker.first_name().upper() and
\* faker.city().upper() return; the first element is the default outcome
LastNames == <<"MARTIN", "LI">>
FirstNames == <<"ANA", "JEAN-LUC">>
CityNames == <<"PARIS", "SAN JOSE CITY", "SAINT-QUENTIN-EN-YVELINES">>
\* (day, month, year) faker.date_of_birth returns
BirthDates == << <<5, 3, 1990>>, <<28, 12, 1946>> >>

\* generate_name
generate_name(k) == LastNames[k]

\* generate_given_names(count): names[i] is the index of the i-th first name
generate_given_names(names) == [i \in 1..Len(names) |-> FirstNames[names[i]]]
GivenNameDraws(counts) ==
    UNION { [1..count -> 1..Len(FirstNames)] : count \in counts }

\* generate_city
generate_city(k) ==
    Slice(Strip(Replace(Replace(Replace(CityNames[k], "VILLE", ""), "CITY", ""), "SAN ", "")),
          0, 20)

\* the low and the high outcome of the randint / random.choice draws of one value
LowDraws == [digit |-> 0, letter |-> "A", year |-> 50, month |-> 1, day |-> 1,
             meters |-> 1, cm |-> 50, separator |-> " ", unit |-> "m",
             support |-> 100000, issue |-> 18]
HighDraws == [digit |-> 9, letter |-> "Z", year |-> 99, month |-> 12, day |-> 28,
              meters |-> 2, cm |-> 99, separator |-> "", unit |-> "M",
              support |-> 999999, issue |-> 50]
ValueDraws == <<LowDraws, HighDraws>>

IdFormats == <<"numeric", "date_based", "alphanumeric">>
\* generate_id_number
generate_id_number(format_type, v) ==
    IF format_type = "numeric" THEN Repeat(ToString(v.digit), 12)
    ELSE IF format_type = "date_based"
    THEN Pad2(v.year) \o Pad2(v.month) \o Pad2(v.day) \o "T" \o Repeat(ToString(v.digit), 5)
    ELSE v.letter \o ToString(v.digit) \o Repeat(v.letter, 3) \o Repeat(ToString(v.digit), 2)
         \o v.letter \o ToString(v.digit)

DateFormats == <<"dots", "spaces">>
\* generate_date
generate_date(date, format_type) ==
    IF format_type = "dots"
    THEN Pad2(date[1]) \o "." \o Pad2(date[2]) \o "." \o ToString(date[3])
    ELSE Pad2(date[1]) \o " " \o Pad2(date[2]) \o " " \o ToString(date[3])

\* generate_height
generate_height(v) == ToString(v.meters) \o v.separator \o ToString(v.cm) \o v.unit

\* generate_support_number
generate_support_number(v) == ToString(v.support)

\* generate_expiry_date(birth_year)
generate_expiry_date(birth_year, v) ==
    Pad2(v.day) \o " " \o Pad2(v.month) \o " " \o ToString(birth_year + v.issue + 15)

(***************************************************************************)
(* Random outcomes of one step of a format generator.  The default outcome *)
(* of random.random() is the high draw, of random.choice and of a value    *)
(* provider the first element; every other outcome a step takes is a       *)
(* deviation, and a generator takes at most MaxDeviations of them, all in  *)
(* one sample: the samples after a sample that deviated take the defaults. *)
(***************************************************************************)
\* per-character draws tried inside a format generator
GenCharPatterns ==
    { [head |-> <<>>, rest |-> [QuietChar EXCEPT !.miss = 0]],
      [head |-> <<>>, rest |-> [QuietChar EXCEPT !.sub = 0]],
      [head |-> <<>>, rest |-> [QuietChar EXCEPT !.dbl = 0]],
      [head |-> <<>>, rest |-> [QuietChar EXCEPT !.extra = 0]],
      [head |-> <<[miss |-> 9, sub |-> 0, dbl |-> 0, extra |-> 0, pick |-> 2]>>,
       rest |-> QuietChar] }

\* the draws of one apply_noise / apply_field_typo call of a format generator
NoisyDraws ==
    { [QuietDraws EXCEPT !.gate = 0, !.word = w, !.spacing = 9 - w, !.wpick = k, !.spick = k] :
          w \in CoinDraws, k \in Picks }
    \cup
    { [QuietDraws EXCEPT !.gate = 0, !.word = w, !.spacing = w] : w \in CoinDraws }
    \cup
    { [QuietDraws EXCEPT !.gate = 0, !.char = 0, !.cd = p] : p \in GenCharPatterns }
    \cup
    { [QuietDraws EXCEPT !.gate = 0, !.word = 0, !.spacing = 0, !.char = 0,
                         !.cd = [head |-> <<>>, rest |-> [QuietChar EXCEPT !.sub = 0]]] }
NoiseSite == {QuietDraws} \cup NoisyDraws
TypoSite == NoiseSite \cup {[QuietDraws EXCEPT !.tpick = 2]}

\* the outcomes a step may take: all of S while a deviation is left, else the default
Opt(S, default) == IF deviations < MaxDeviations THEN S ELSE {default}

\* number of outcomes of the tuple `taken` that differ from the default outcomes
Devs(taken, default) == Cardinality({i \in DOMAIN taken : taken[i] # default[i]})

\* take the outcomes `taken` where `default` lists the default outcomes
Spend(taken, default) ==
    /\ deviations + Devs(taken, default) <= MaxDeviations
    /\ deviations' = deviations + Devs(taken, default)

\* include an optional segment with the outcomes `taken` inside it: the
\* inclusion and the first non-default outcome inside count as one deviation
SpendSegment(taken, default) ==
    /\ deviations + Max(1, Devs(taken, default)) <= MaxDeviations
    /\ deviations' = deviations + Max(1, Devs(taken, default))

Ent(start, end, label, value) ==
    [start |-> start, end |-> end, label |-> label, value |-> value]

\* parts.append(p) for each p of ps, entities.append(e) for each e of es
Emit(ps, es, next) ==
    /\ parts' = parts \o ps
    /\ entities' = entities \o es
    /\ pc' = next

\* an IndexError leaves the format generator
Raised == pc' = "raised" /\ UNCHANGED <<parts, entities, pos>>

\* what a step of a format generator leaves alone
Frame == UNCHANGED <<noise, tables, fmt, results, remaining, call, ret, main>>
Rest == Frame /\ segment' = NoSegment

\* the step is at the optional segment of the current pc: `included` tells
\* whether the inclusion draw succeeded, `chosen` the key _weighted_choice gave
Segment(included, chosen) ==
    segment' = [at |-> pc, included |-> included, chosen |-> chosen]
Locals == UNCHANGED <<surname, given_names_list>>

(***************************************************************************)
(* generate_simple_format                                                  *)
(***************************************************************************)
header_variants == <<"R&PUBLIQUE FRAN$AISE", "FRAN$AISE R&PUBLIQUE", "R&PUBLIQUEFRAN$AISE">>

S_header ==
    /\ pc = "S_header"
    /\ \E h \in Opt(1..Len(header_variants), 1), dr \in Opt(NoiseSite, QuietDraws) :
         LET header == header_variants[h]
             r == apply_noise(header, TRUE, dr)
             header_noisy == r.value
             country_start == pos
         IN /\ Spend(<<h, dr>>, <<1, QuietDraws>>)
            /\ IF r.raised THEN Raised
               ELSE /\ Emit(<<header_noisy \o " ">>,
                            <<Ent(country_start, country_start + Len(header_noisy),
                                  "Country", header_noisy)>>, "S_doc_type")
                    /\ pos' = pos + Len(header_noisy) + 1
    /\ Locals /\ Rest

\* S_doc_type measuring the literal where the code measures its noised text
S_doc_type_stale ==
    /\ pc = "S_doc_type"
    /\ \E dr \in Opt(NoiseSite, QuietDraws) :
         LET doc_type == "CARTE NATIONALE D'IDENTIT&"
             r == apply_noise(doc_type, TRUE, dr)
             doc_type_noisy == r.value
             doc_start == pos
         IN /\ Spend(<<dr>>, <<QuietDraws>>)
            /\ IF r.raised THEN Raised
               ELSE /\ Emit(<<doc_type_noisy>>,
                            <<Ent(doc_start, pos + Len(doc_type), "DOC_TYPE",
                                  doc_type_noisy)>>, "S_id")
                    /\ pos' = pos + Len(doc_type)
    /\ Locals /\ Rest

S_doc_type ==
    /\ pc = "S_doc_type"
    /\ \E dr \in Opt(NoiseSite, QuietDraws) :
         LET r == apply_noise("CARTE NATIONALE D'IDENTIT&", TRUE, dr)
             doc_type_noisy == r.value
             doc_start == pos
         IN /\ Spend(<<dr>>, <<QuietDraws>>)
            /\ IF r.raised THEN Raised
               ELSE /\ Emit(<<doc_type_noisy>>,
                            <<Ent(doc_start, pos + Len(doc_type_noisy), "DOC_TYPE",
                                  doc_type_noisy)>>, "S_id")
                    /\ pos' = pos + Len(doc_type_noisy)
    /\ Locals /\ Rest

\* S_id reading the entity start before its label is appended
S_id_early_start ==
    /\ pc = "S_id"
    /\ \E dr \in Opt(NoiseSite, QuietDraws), f \in Opt(1..Len(IdFormats), 1),
          v \in Opt(1..Len(ValueDraws), 1) :
         LET r == apply_noise(" N* : ", TRUE, dr)
             id_label_noisy == r.value
             id_num == generate_id_number(IdFormats[f], ValueDraws[v])
             id_start == pos
         IN /\ Spend(<<dr, f, v>>, <<QuietDraws, 1, 1>>)
            /\ IF r.raised THEN Raised
               ELSE /\ Emit(<<id_label_noisy, id_num>>,
                            <<Ent(id_start, id_start + Len(id_num), "DNI", id_num)>>,
                            "S_nationality")
                    /\ pos' = pos + Len(id_label_noisy) + Len(id_num)
    /\ Locals /\ Rest

S_id ==
    /\ pc = "S_id"
    /\ \E dr \in Opt(NoiseSite, QuietDraws), f \in Opt(1..Len(IdFormats), 1),
          v \in Opt(1..Len(ValueDraws), 1) :
         LET r == apply_noise(" N* : ", TRUE, dr)
             id_label_noisy == r.value
             id_num == generate_id_number(IdFormats[f], ValueDraws[v])
             id_start == pos + Len(id_label_noisy)
         IN /\ Spend(<<dr, f, v>>, <<QuietDraws, 1, 1>>)
            /\ IF r.raised THEN Raised
               ELSE /\ Emit(<<id_label_noisy, id_num>>,
                            <<Ent(id_start, id_start + Len(id_num), "DNI", id_num)>>,
                            "S_nationality")
                    /\ pos' = id_start + Len(id_num)
    /\ Locals /\ Rest

S_nationality ==
    /\ pc = "S_nationality"
    /\ \E dr \in Opt(TypoSite, QuietDraws) :
         LET r == apply_field_typo(" Nationalit@ ", dr)
             nat_label_noisy == r.value
             nationality == "Fran%aise"
             nat_start == pos + Len(nat_label_noisy)
         IN /\ Spend(<<dr>>, <<QuietDraws>>)
            /\ IF r.raised THEN Raised
               ELSE /\ Emit(<<nat_label_noisy, nationality \o " ">>,
                            <<Ent(nat_start, (nat_start + Len(nationality) + 1) - 1,
                                  "Nationality", nationality)>>, "S_names")
                    /\ pos' = nat_start + Len(nationality) + 1
    /\ Locals /\ Rest

S_names ==
    /\ pc = "S_names"
    /\ \E k \in Opt(1..Len(LastNames), 1), names \in Opt(GivenNameDraws(1..3), <<1>>) :
         /\ Spend(<<k, names>>, <<1, <<1>> >>)
         /\ surname' = generate_name(k)
         /\ given_names_list' = generate_given_names(names)
    /\ pc' = "S_code"
    /\ UNCHANGED <<parts, entities, pos>>
    /\ Rest

\* S_code putting the letter of the given name before that of the surname
S_code_given_first ==
    /\ pc = "S_code"
    /\ \E draw \in Opt(CoinDraws, 9) :
         /\ Spend(<<draw>>, <<9>>)
         /\ Segment(draw < Get(tables.simple_probs, "two_letter_code", 5), "")
         /\ IF draw < Get(tables.simple_probs, "two_letter_code", 5)
            THEN LET first_letter_surname == IF surname # "" THEN CharAt(surname, 0) ELSE "A"
                     first_letter_given == IF given_names_list # <<>>
                                           THEN CharAt(given_names_list[1], 0) ELSE "A"
                     code == first_letter_given \o first_letter_surname
                 IN /\ Emit(<<code \o " ">>, <<>>, "S_signature_noise")
                    /\ pos' = pos + Len(code \o " ")
            ELSE Emit(<<>>, <<>>, "S_signature_noise") /\ pos' = pos
    /\ Locals /\ Frame

S_code ==
    /\ pc = "S_code"
    /\ \E draw \in Opt(CoinDraws, 9) :
         /\ Spend(<<draw>>, <<9>>)
         /\ Segment(draw < Get(tables.simple_probs, "two_letter_code", 5), "")
         /\ IF draw < Get(tables.simple_probs, "two_letter_code", 5)
            THEN LET first_letter_surname == IF surname # "" THEN CharAt(surname, 0) ELSE "A"
                     first_letter_given == IF given_names_list # <<>>
                                           THEN CharAt(given_names_list[1], 0) ELSE "A"
                     code == first_letter_surname \o first_letter_given
                 IN /\ Emit(<<code \o " ">>, <<>>, "S_signature_noise")
                    /\ pos' = pos + Len(code \o " ")
            ELSE Emit(<<>>, <<>>, "S_signature_noise") /\ pos' = pos
    /\ Locals /\ Frame

\* the default of self.signature_noise.get("simple_format", ...)
simple_noise_default == << <<"RF ", 3>>, <<"3F ", 2>>, <<"RERE ", 1>>, <<"none", 4>> >>

\* S_signature_noise appending the chosen key whatever it is, "none" included
S_signature_noise_literal ==
    /\ pc = "S_signature_noise"
    /\ \E draw \in Opt(CoinDraws, 9) :
         IF draw < Get(tables.simple_probs, "signature_noise_before_nom", 2)
         THEN \E rand_val \in Draws :
                LET simple_noise_patterns ==
                        Get(tables.signature_noise, "simple_format", simple_noise_default)
                    chosen_noise == _weighted_choice(simple_noise_patterns, rand_val)
                IN /\ SpendSegment(<<>>, <<>>)
                   /\ Segment(TRUE, chosen_noise.value)
                   /\ IF chosen_noise.raised THEN Raised
                      ELSE /\ Emit(<<chosen_noise.value>>, <<>>, "S_name")
                           /\ pos' = pos + Len(chosen_noise.value)
         ELSE /\ Spend(<<draw>>, <<9>>)
              /\ Segment(FALSE, "")
              /\ Emit(<<>>, <<>>, "S_name") /\ pos' = pos
    /\ Locals /\ Frame

S_signature_noise ==
    /\ pc = "S_signature_noise"
    /\ \E draw \in Opt(CoinDraws, 9) :
         IF draw < Get(tables.simple_probs, "signature_noise_before_nom", 2)
         THEN \E rand_val \in Draws :
                LET simple_noise_patterns ==
                        Get(tables.signature_noise, "simple_format", simple_noise_default)
                    chosen_noise == _weighted_choice(simple_noise_patterns, rand_val)
                IN /\ SpendSegment(<<>>, <<>>)
                   /\ Segment(TRUE, chosen_noise.value)
                   /\ IF chosen_noise.raised THEN Raised
                      ELSE IF chosen_noise.value # "none"
                      THEN /\ Emit(<<chosen_noise.value>>, <<>>, "S_name")
                           /\ pos' = pos + Len(chosen_noise.value)
                      ELSE Emit(<<>>, <<>>, "S_name") /\ pos' = pos
         ELSE /\ Spend(<<draw>>, <<9>>)
              /\ Segment(FALSE, "")
              /\ Emit(<<>>, <<>>, "S_name") /\ pos' = pos
    /\ Locals /\ Frame

S_name ==
    /\ pc = "S_name"
    /\ \E dr \in Opt(NoiseSite, QuietDraws) :
         LET r == apply_noise("Nom : ", TRUE, dr)
             name_label_noisy == r.value
             name_start == pos + Len(name_label_noisy)
         IN /\ Spend(<<dr>>, <<QuietDraws>>)
            /\ IF r.raised THEN Raised
               ELSE /\ Emit(<<name_label_noisy, surname>>,
                            <<Ent(name_start, name_start + Len(surname), "Name", surname)>>,
                            "S_social")
                    /\ pos' = name_start + Len(surname)
    /\ Locals /\ Rest

social_status_types == <<"Epouse: ", "Veuve: ", "Nom d'usage: ">>

S_social ==
    /\ pc = "S_social"
    /\ \E draw \in Opt(CoinDraws, 9) :
         IF draw < Get(tables.simple_probs, "social_status_fields", 3)
         THEN \E t \in 1..Len(social_status_types), dr \in TypoSite,
                 k \in 1..Len(LastNames), hyphen \in CoinDraws, k2 \in 1..Len(LastNames) :
                LET social_label == social_status_types[t]
                    r == apply_field_typo(social_label, dr)
                    social_label_noisy == r.value
                    alt_start == pos + Len(" " \o social_label_noisy)
                    alt_name == IF hyphen < Get(tables.simple_probs, "hyphenated_alt_names", 3)
                                THEN generate_name(k) \o "- " \o generate_name(k2)
                                ELSE generate_name(k)
                IN /\ SpendSegment(<<t, dr, k, hyphen, k2>>, <<1, QuietDraws, 1, 9, 1>>)
                   /\ Segment(TRUE, "")
                   /\ IF r.raised THEN Raised
                      ELSE /\ Emit(<<" " \o social_label_noisy, alt_name>>,
                                   <<Ent(alt_start, alt_start + Len(alt_name), "Alt_name",
                                         alt_name)>>, "S_given")
                           /\ pos' = alt_start + Len(alt_name)
         ELSE /\ Spend(<<draw>>, <<9>>)
              /\ Segment(FALSE, "")
              /\ Emit(<<>>, <<>>, "S_given") /\ pos' = pos
    /\ Locals /\ Frame

RECURSIVE GivenNamesLoop_zero(_, _, _)
\* GivenNamesLoop labelling with the 0-based index i
GivenNamesLoop_zero(names, i, p) ==
    IF i >= Len(names) THEN [parts |-> <<>>, entities |-> <<>>, pos |-> p]
    ELSE LET gname == names[i + 1]
             gname_start == IF i > 0 THEN p + 2 ELSE p
             rest == GivenNamesLoop_zero(names, i + 1, gname_start + Len(gname))
         IN [parts |-> (IF i > 0 THEN <<", ">> ELSE <<>>) \o <<gname>> \o rest.parts,
             entities |-> <<Ent(gname_start, gname_start + Len(gname),
                                "Surname_" \o ToString(i), gname)>> \o rest.entities,
             pos |-> rest.pos]

RECURSIVE GivenNamesLoop(_, _, _)
\* for i, gname in enumerate(given_names_list): ... from index i on, with pos = p;
\* the loop is the same in both format generators
GivenNamesLoop(names, i, p) ==
    IF i >= Len(names) THEN [parts |-> <<>>, entities |-> <<>>, pos |-> p]
    ELSE LET gname == names[i + 1]
             gname_start == IF i > 0 THEN p + 2 ELSE p
             rest == GivenNamesLoop(names, i + 1, gname_start + Len(gname))
         IN [parts |-> (IF i > 0 THEN <<", ">> ELSE <<>>) \o <<gname>> \o rest.parts,
             entities |-> <<Ent(gname_start, gname_start + Len(gname),
                                "Surname_" \o ToString(i + 1), gname)>> \o rest.entities,
             pos |-> rest.pos]

S_given ==
    /\ pc = "S_given"
    /\ \E dr \in Opt(TypoSite, QuietDraws) :
         LET r == apply_field_typo("Pr@nom(s)", dr)
             prenom_label_noisy == r.value
             prenom_full == " " \o prenom_label_noisy \o ": "
             loop == GivenNamesLoop(given_names_list, 0, pos + Len(prenom_full))
         IN /\ Spend(<<dr>>, <<QuietDraws>>)
            /\ IF r.raised THEN Raised
               ELSE /\ Emit(<<prenom_full>> \o loop.parts, loop.entities, "S_gender")
                    /\ pos' = loop.pos
    /\ Locals /\ Rest

Genders == <<"M", "F">>

S_gender ==
    /\ pc = "S_gender"
    /\ \E dr \in Opt(TypoSite, QuietDraws), g \in Opt(1..Len(Genders), 1) :
         LET r == apply_field_typo(" Sexe : ", dr)
             sex_label_noisy == r.value
             gender == Genders[g]
             gender_start == pos + Len(sex_label_noisy)
         IN /\ Spend(<<dr, g>>, <<QuietDraws, 1>>)
            /\ IF r.raised THEN Raised
               ELSE /\ Emit(<<sex_label_noisy, gender>>,
                            <<Ent(gender_start, gender_start + 1, "Gender", gender)>>,
                            "S_birth_date")
                    /\ pos' = gender_start + 1
    /\ Locals /\ Rest

S_birth_date ==
    /\ pc = "S_birth_date"
    /\ \E dr \in Opt(TypoSite, QuietDraws), d \in Opt(1..Len(BirthDates), 1),
          f \in Opt(1..Len(DateFormats), 1) :
         LET r == apply_field_typo("N@(e)", dr)
             ne_label_noisy == r.value
             ne_full == " " \o ne_label_noisy \o " le : "
             birth_date == generate_date(BirthDates[d], DateFormats[f])
             birth_date_start == pos + Len(ne_full)
         IN /\ Spend(<<dr, d, f>>, <<QuietDraws, 1, 1>>)
            /\ IF r.raised THEN Raised
               ELSE /\ Emit(<<ne_full, birth_date>>,
                            <<Ent(birth_date_start, birth_date_start + Len(birth_date),
                                  "Date of birthday", birth_date)>>, "S_birth_place")
                    /\ pos' = birth_date_start + Len(birth_date)
    /\ Locals /\ Rest

\* S_birth_place including the birth place when the draw is NOT below the probability
S_birth_place_inverted ==
    /\ pc = "S_birth_place"
    /\ \E draw \in Opt(CoinDraws, 9) :
         IF draw >= Get(tables.simple_probs, "birth_place", 8)
         THEN \E c \in 1..Len(CityNames) :
                   LET a_label == " ! "
                       city == generate_city(c)
                       city_start == pos + Len(a_label)
                   IN /\ SpendSegment(<<c>>, <<1>>)
                      /\ Segment(TRUE, "")
                      /\ Emit(<<a_label, city>>,
                              <<Ent(city_start, city_start + Len(city), "Birth_place", city)>>,
                              "S_height")
                      /\ pos' = city_start + Len(city)
         ELSE /\ Spend(<<draw>>, <<9>>)
              /\ Segment(FALSE, "")
              /\ Emit(<<>>, <<>>, "S_height") /\ pos' = pos
    /\ Locals /\ Frame

S_birth_place ==
    /\ pc = "S_birth_place"
    /\ \E draw \in Opt(CoinDraws, 9) :
         IF draw < Get(tables.simple_probs, "birth_place", 8)
         THEN \E c \in 1..Len(CityNames) :
                   LET a_label == " ! "
                       city == generate_city(c)
                       city_start == pos + Len(a_label)
                   IN /\ SpendSegment(<<c>>, <<1>>)
                      /\ Segment(TRUE, "")
                      /\ Emit(<<a_label, city>>,
                              <<Ent(city_start, city_start + Len(city), "Birth_place", city)>>,
                              "S_height")
                      /\ pos' = city_start + Len(city)
         ELSE /\ Spend(<<draw>>, <<9>>)
              /\ Segment(FALSE, "")
              /\ Emit(<<>>, <<>>, "S_height") /\ pos' = pos
    /\ Locals /\ Frame

S_height ==
    /\ pc = "S_height"
    /\ \E draw \in Opt(CoinDraws, 9) :
         IF draw < Get(tables.simple_probs, "height", 6)
         THEN \E dr \in NoiseSite, v \in 1..Len(ValueDraws) :
                   LET r == apply_noise("Taille", TRUE, dr)
                       taille_label_noisy == r.value
                       taille_full == " " \o taille_label_noisy \o " : "
                       height == generate_height(ValueDraws[v])
                       height_start == pos + Len(taille_full)
                   IN /\ SpendSegment(<<dr, v>>, <<QuietDraws, 1>>)
                      /\ Segment(TRUE, "")
                      /\ IF r.raised THEN Raised
                         ELSE /\ Emit(<<taille_full, height>>,
                                      <<Ent(height_start, height_start + Len(height), "Height",
                                            height)>>, "S_signature")
                              /\ pos' = height_start + Len(height)
         ELSE /\ Spend(<<draw>>, <<9>>)
              /\ Segment(FALSE, "")
              /\ Emit(<<>>, <<>>, "S_signature") /\ pos' = pos
    /\ Locals /\ Frame

S_signature ==
    /\ pc = "S_signature"
    /\ \E draw \in Opt(CoinDraws, 9) :
         IF draw < Get(tables.simple_probs, "optional_signature", 4)
         THEN \E dr \in NoiseSite :
                   LET r == apply_noise("Signature du titulaire", TRUE, dr)
                       sig_label_noisy == r.value
                       sig_full == " " \o sig_label_noisy \o " :"
                   IN /\ SpendSegment(<<dr>>, <<QuietDraws>>)
                      /\ Segment(TRUE, "")
                      /\ IF r.raised THEN Raised
                         ELSE /\ Emit(<<sig_full>>, <<>>, "return")
                              /\ pos' = pos + Len(sig_full)
         ELSE /\ Spend(<<draw>>, <<9>>)
              /\ Segment(FALSE, "")
              /\ Emit(<<>>, <<>>, "return") /\ pos' = pos
    /\ Locals /\ Frame

(***************************************************************************)
(* generate_bilingual_format                                               *)
(***************************************************************************)
\* B_header advancing pos by the length of the header before noise
B_header_stale ==
    /\ pc = "B_header"
    /\ \E h \in Opt(1..Len(header_variants), 1), dr \in Opt(NoiseSite, QuietDraws) :
         LET header == header_variants[h]
             r == apply_noise(header, TRUE, dr)
             header_noisy == r.value
             country_start == pos
         IN /\ Spend(<<h, dr>>, <<1, QuietDraws>>)
            /\ IF r.raised THEN Raised
               ELSE /\ Emit(<<header_noisy, " FR ">>,
                            <<Ent(country_start, country_start + Len(header_noisy), "Country",
                                  header_noisy)>>, "B_doc_type")
                    /\ pos' = pos + Len(header) + 4
    /\ Locals /\ Rest

B_header ==
    /\ pc = "B_header"
    /\ \E h \in Opt(1..Len(header_variants), 1), dr \in Opt(NoiseSite, QuietDraws) :
         LET header == header_variants[h]
             r == apply_noise(header, TRUE, dr)
             header_noisy == r.value
             country_start == pos
         IN /\ Spend(<<h, dr>>, <<1, QuietDraws>>)
            /\ IF r.raised THEN Raised
               ELSE /\ Emit(<<header_noisy, " FR ">>,
                            <<Ent(country_start, pos + Len(header_noisy), "Country",
                                  header_noisy)>>, "B_doc_type")
                    /\ pos' = pos + Len(header_noisy) + 4
    /\ Locals /\ Rest

B_doc_type ==
    /\ pc = "B_doc_type"
    /\ \E dr \in Opt(NoiseSite, QuietDraws) :
         LET r == apply_noise("CARTE NATIONALE D'IDENTIT& / IDENTITY CARD", TRUE, dr)
             doc_type_noisy == r.value
             doc_start == pos
         IN /\ Spend(<<dr>>, <<QuietDraws>>)
            /\ IF r.raised THEN Raised
               ELSE /\ Emit(<<doc_type_noisy>>,
                            <<Ent(doc_start, pos + Len(doc_type_noisy), "DOC_TYPE",
                                  doc_type_noisy)>>, "B_name")
                    /\ pos' = pos + Len(doc_type_noisy)
    /\ Locals /\ Rest

B_name ==
    /\ pc = "B_name"
    /\ \E dr \in Opt(TypoSite, QuietDraws), k \in Opt(1..Len(LastNames), 1) :
         LET r == apply_field_typo(" NOM/Sumame ", dr)
             field_label == r.value
             name_start == pos + Len(field_label)
         IN /\ Spend(<<dr, k>>, <<QuietDraws, 1>>)
            /\ IF r.raised THEN Raised /\ Locals
               ELSE /\ surname' = generate_name(k)
                    /\ UNCHANGED given_names_list
                    /\ Emit(<<field_label, surname'>>,
                            <<Ent(name_start, name_start + Len(surname'), "Name", surname')>>,
                            "B_given")
                    /\ pos' = name_start + Len(surname')
    /\ Rest

B_given ==
    /\ pc = "B_given"
    /\ \E dr \in Opt(TypoSite, QuietDraws), names \in Opt(GivenNameDraws(1..2), <<1>>) :
         LET r == apply_field_typo(" Pr@noms / Given names ", dr)
             given_label == r.value
             loop == GivenNamesLoop(generate_given_names(names), 0, pos + Len(given_label))
         IN /\ Spend(<<dr, names>>, <<QuietDraws, <<1>> >>)
            /\ IF r.raised THEN Raised /\ Locals
               ELSE /\ given_names_list' = generate_given_names(names)
                    /\ UNCHANGED surname
                    /\ Emit(<<given_label>> \o loop.parts, loop.entities, "B_labels")
                    /\ pos' = loop.pos
    /\ Rest

\* B_labels emitting the birth-date label before the other two labels
B_labels_date_first ==
    /\ pc = "B_labels"
    /\ \E dr1 \in Opt(TypoSite, QuietDraws), dr2 \in Opt(TypoSite, QuietDraws) :
         LET r1 == apply_field_typo(" SEXE /Sex ", dr1)
             gender_label == r1.value
             r2 == apply_field_typo(" NATIONALIT& / Nationality ", dr2)
             nat_label == r2.value
             date_label == "DATE DE NAISS. / Date of birth "
         IN /\ Spend(<<dr1, dr2>>, <<QuietDraws, QuietDraws>>)
            /\ IF r1.raised \/ r2.raised THEN Raised
               ELSE /\ Emit(<<date_label, gender_label, nat_label>>, <<>>, "B_gender")
                    /\ pos' = pos + Len(gender_label) + Len(nat_label) + Len(date_label)
    /\ Locals /\ Rest

B_labels ==
    /\ pc = "B_labels"
    /\ \E dr1 \in Opt(TypoSite, QuietDraws), dr2 \in Opt(TypoSite, QuietDraws) :
         LET r1 == apply_field_typo(" SEXE /Sex ", dr1)
             gender_label == r1.value
             r2 == apply_field_typo(" NATIONALIT& / Nationality ", dr2)
             nat_label == r2.value
             date_label == "DATE DE NAISS. / Date of birth "
         IN /\ Spend(<<dr1, dr2>>, <<QuietDraws, QuietDraws>>)
            /\ IF r1.raised \/ r2.raised THEN Raised
               ELSE /\ Emit(<<gender_label, nat_label, date_label>>, <<>>, "B_gender")
                    /\ pos' = pos + Len(gender_label) + Len(nat_label) + Len(date_label)
    /\ Locals /\ Rest

B_gender ==
    /\ pc = "B_gender"
    /\ \E g \in Opt(1..Len(Genders), 1) :
         LET gender == Genders[g]
             gender_start == pos
         IN /\ Spend(<<g>>, <<1>>)
            /\ Emit(<<gender \o " ">>,
                    <<Ent(gender_start, gender_start + 1, "Gender", gender)>>,
                    "B_nationality")
            /\ pos' = pos + 2
    /\ Locals /\ Rest

Nationalities == <<"FRA", "ESP", "PRT", "ITA", "BEL", "MAR", "TUN", "DZA">>

B_nationality ==
    /\ pc = "B_nationality"
    /\ \E n \in Opt(1..Len(Nationalities), 1) :
         LET nationality == Nationalities[n]
             nat_start == pos
         IN /\ Spend(<<n>>, <<1>>)
            /\ Emit(<<nationality \o " ">>,
                    <<Ent(nat_start, (pos + Len(nationality) + 1) - 1, "Nationality",
                          nationality)>>, "B_birth_date")
            /\ pos' = pos + Len(nationality) + 1
    /\ Locals /\ Rest

B_birth_date ==
    /\ pc = "B_birth_date"
    /\ \E d \in Opt(1..Len(BirthDates), 1), f \in Opt(1..Len(DateFormats), 1) :
         LET birth_date == generate_date(BirthDates[d], DateFormats[f])
             birth_date_start == pos
         IN /\ Spend(<<d, f>>, <<1, 1>>)
            /\ Emit(<<birth_date>>,
                    <<Ent(birth_date_start, pos + Len(birth_date), "Date of birthday",
                          birth_date)>>, "B_birth_place")
            /\ pos' = pos + Len(birth_date)
    /\ Locals /\ Rest

B_birth_place ==
    /\ pc = "B_birth_place"
    /\ \E draw \in Opt(CoinDraws, 9) :
         IF draw < Get(tables.bilingual_probs, "birth_place", 9)
         THEN \E c \in 1..Len(CityNames) :
                   LET birth_place_label == " LIEU DE NAISSANCE / Place of birth "
                       city == generate_city(c)
                       city_start == pos + Len(birth_place_label)
                   IN /\ SpendSegment(<<c>>, <<1>>)
                      /\ Segment(TRUE, "")
                      /\ Emit(<<birth_place_label, city>>,
                              <<Ent(city_start, city_start + Len(city), "Birth_place", city)>>,
                              "B_alt_name")
                      /\ pos' = city_start + Len(city)
         ELSE /\ Spend(<<draw>>, <<9>>)
              /\ Segment(FALSE, "")
              /\ Emit(<<>>, <<>>, "B_alt_name") /\ pos' = pos
    /\ Locals /\ Frame

B_alt_name ==
    /\ pc = "B_alt_name"
    /\ \E draw \in Opt(CoinDraws, 9) :
         IF draw < Get(tables.bilingual_probs, "alt_name_married", 3)
         THEN \E dr \in TypoSite, k \in 1..Len(LastNames) :
                   LET r == apply_field_typo(" NOM D'USAGE / Alternate name @p. ", dr)
                       guardian_label_noisy == r.value
                       guardian_name == generate_name(k)
                       guardian_start == pos + Len(guardian_label_noisy)
                   IN /\ SpendSegment(<<dr, k>>, <<QuietDraws, 1>>)
                      /\ Segment(TRUE, "")
                      /\ IF r.raised THEN Raised
                         ELSE /\ Emit(<<guardian_label_noisy, guardian_name>>,
                                      <<Ent(guardian_start, guardian_start + Len(guardian_name),
                                            "Alt_name", guardian_name)>>, "B_dni")
                              /\ pos' = guardian_start + Len(guardian_name)
         ELSE /\ Spend(<<draw>>, <<9>>)
              /\ Segment(FALSE, "")
              /\ Emit(<<>>, <<>>, "B_dni") /\ pos' = pos
    /\ Locals /\ Frame

B_dni ==
    /\ pc = "B_dni"
    /\ \E f \in Opt(1..Len(IdFormats), 1), v \in Opt(1..Len(ValueDraws), 1) :
         LET doc_num_label == " N* DU DOCUMENT / Document No "
             id_num == generate_id_number(IdFormats[f], ValueDraws[v])
             id_start == pos + Len(doc_num_label)
         IN /\ Spend(<<f, v>>, <<1, 1>>)
            /\ Emit(<<doc_num_label, id_num>>,
                    <<Ent(id_start, id_start + Len(id_num), "DNI", id_num)>>, "B_expiry")
            /\ pos' = id_start + Len(id_num)
    /\ Locals /\ Rest

B_expiry ==
    /\ pc = "B_expiry"
    /\ \E draw \in Opt(CoinDraws, 9) :
         IF draw < Get(tables.bilingual_probs, "expiry_date", 8)
         THEN \E v \in 1..Len(ValueDraws) :
                   LET expiry_label == " DATE D'EXPIR. / Expiry date "
                       expiry == generate_expiry_date(1980, ValueDraws[v])
                       expiry_start == pos + Len(expiry_label)
                   IN /\ SpendSegment(<<v>>, <<1>>)
                      /\ Segment(TRUE, "")
                      /\ Emit(<<expiry_label, expiry>>,
                              <<Ent(expiry_start, expiry_start + Len(expiry), "Validity_date",
                                    expiry)>>, "B_support")
                      /\ pos' = expiry_start + Len(expiry)
         ELSE /\ Spend(<<draw>>, <<9>>)
              /\ Segment(FALSE, "")
              /\ Emit(<<>>, <<>>, "B_support") /\ pos' = pos
    /\ Locals /\ Frame

\* the default of self.signature_noise.get("bilingual_format", ...)
bilingual_noise_default ==
    << <<"MA ", 3>>, <<"random_2letter", 2>>, <<"random_digits", 1>>, <<"none", 4>> >>
TwoLetterNoise == <<"AB ", "BA ", "CA ", "DA ", "KA ", "RA ", "SA ">>

B_support ==
    /\ pc = "B_support"
    /\ \E draw \in Opt(CoinDraws, 9) :
         IF draw < Get(tables.bilingual_probs, "support_number", 4)
         THEN \E rand_val \in Draws, t \in 1..Len(TwoLetterNoise), noise_len \in {2, 3},
                    v \in 1..Len(ValueDraws) :
                   LET bilingual_noise_patterns ==
                           Get(tables.signature_noise, "bilingual_format",
                               bilingual_noise_default)
                       chosen_noise == _weighted_choice(bilingual_noise_patterns, rand_val)
                       fragment ==
                           IF chosen_noise.value = "MA " THEN <<"MA ">>
                           ELSE IF chosen_noise.value = "random_2letter"
                           THEN <<TwoLetterNoise[t]>>
                           ELSE IF chosen_noise.value = "random_digits"
                           THEN <<Repeat(ToString(ValueDraws[v].digit), noise_len) \o " ">>
                           ELSE <<>>
                       fragment_len ==
                           IF chosen_noise.value = "MA " THEN 3
                           ELSE IF chosen_noise.value = "random_2letter" THEN 3
                           ELSE IF chosen_noise.value = "random_digits"
                           THEN Len(fragment[1])
                           ELSE 0
                       support == generate_support_number(ValueDraws[v])
                       support_start == pos + 1 + fragment_len
                   IN /\ SpendSegment(<<t, noise_len, v>>, <<1, 2, 1>>)
                      /\ Segment(TRUE, chosen_noise.value)
                      /\ IF chosen_noise.raised
                         THEN /\ pc' = "raised"
                              /\ parts' = Append(parts, " ")
                              /\ pos' = pos + 1
                              /\ UNCHANGED entities
                         ELSE /\ Emit(<<" ">> \o fragment \o <<support>>,
                                      <<Ent(support_start, support_start + Len(support),
                                            "Support_number", support)>>, "return")
                              /\ pos' = support_start + Len(support)
         ELSE /\ Spend(<<draw>>, <<9>>)
              /\ Segment(FALSE, "")
              /\ Emit(<<>>, <<>>, "return") /\ pos' = pos
    /\ Locals /\ Frame

(***************************************************************************)
(* generate_one and generate_batch                                         *)
(***************************************************************************)
\* generate_batch(count) is called, on a new generator or after an earlier call
generate_batch ==
    /\ pc \in {"idle", "finished"}
    /\ \E count \in 0..MaxCount : remaining' = count
    /\ results' = <<>>
    /\ pc' = "one"
    /\ UNCHANGED <<noise, tables, fmt, parts, entities, pos, surname, given_names_list,
                   deviations, call, ret, main>>
    /\ segment' = NoSegment

\* generate_one entering a format generator that goes on with the parts,
\* entities and pos of the sample before
generate_one_stale ==
    /\ pc = "one"
    /\ remaining > 0
    /\ \E draw \in Opt(CoinDraws, 9) :
         /\ fmt' = IF draw < 7 THEN "simple" ELSE "bilingual"
         /\ pc' = IF draw < 7 THEN "S_header" ELSE "B_header"
    /\ UNCHANGED <<parts, entities, pos>>
    /\ UNCHANGED <<noise, tables, surname, given_names_list, results, remaining,
                   deviations, call, ret, main>>
    /\ segment' = NoSegment

\* generate_one picks the format and enters its generator; the pick is free
\* while a deviation is left
generate_one ==
    /\ pc = "one"
    /\ remaining > 0
    /\ \E draw \in Opt(CoinDraws, 9) :
         /\ fmt' = IF draw < 7 THEN "simple" ELSE "bilingual"
         /\ pc' = IF draw < 7 THEN "S_header" ELSE "B_header"
    /\ parts' = <<>>
    /\ entities' = <<>>
    /\ pos' = 0
    /\ UNCHANGED <<noise, tables, surname, given_names_list, results, remaining,
                   deviations, call, ret, main>>
    /\ segment' = NoSegment

\* text = "".join(parts); return text, entities -- and generate_batch collects it
ReturnSample ==
    /\ pc = "return"
    /\ results' = Append(results, [text |-> Join(parts), entities |-> entities])
    /\ remaining' = remaining - 1
    /\ pc' = "one"
    /\ deviations' = IF deviations > 0 THEN MaxDeviations ELSE 0
    /\ UNCHANGED <<noise, tables, fmt, parts, entities, pos, surname, given_names_list,
                   call, ret, main>>
    /\ segment' = NoSegment

\* generate_batch returns the list
BatchDone ==
    /\ pc = "one"
    /\ remaining = 0
    /\ pc' = "finished"
    /\ UNCHANGED <<noise, tables, fmt, parts, entities, pos, surname, given_names_list,
                   results, remaining, deviations, call, ret, main>>
    /\ segment' = NoSegment

\* tables of a configuration whose keys occur in the labels of the two formats
DocTables ==
    [word_replacements |-> << <<"NATIONALE", <<"NATIONAL", "NATlONALE E">> >>,
                              <<"R&PUBLIQUEFRAN$AISE", <<"", "RF">> >>,
                              <<"Nom", <<"Norn", "">> >> >>,
     spacing_errors |-> << <<" : ", <<": ", "  :  ">> >> >>,
     char_subs |-> << <<"l", "1">>, <<"&", "E">>, <<"m", "rn">> >>,
     extra_chars |-> <<".", " ">>,
     field_typos |-> << <<"Sexe", <<"Sexo", "Sxe">> >>,
                        <<" NOM/Sumame ", <<" NOM/Surname ", " NOM/Sumarne ">> >>,
                        <<"Pr@nom", <<"Prenom", "Pr@norn">> >>,
                        <<" SEXE /Sex ", <<"", " SEXE/Sex ">> >>,
                        <<" Nationalit@ ", <<" Nationalite ", " Nationalit@  ">> >> >>,
     signature_noise |-> <<>>, simple_probs |-> <<>>, bilingual_probs |-> <<>>]
\* a configuration with an empty filler pool and empty signature-noise tables
BareTables ==
    [EmptyTables EXCEPT !.extra_chars = <<>>,
                        !.signature_noise = << <<"simple_format", <<>> >>,
                                               <<"bilingual_format", <<>> >> >>]

\* DocTables with the optional entities of the Simple format switched off
NoOptionalTables ==
    [DocTables EXCEPT !.simple_probs = << <<"social_status_fields", 0>>,
                                          <<"birth_place", 0>>, <<"height", 0>> >>]

GenNoise == {CleanNoise, HeavyNoise}
GenTables == {DocTables, BareTables, NoOptionalTables}

Init ==
    /\ noise \in GenNoise
    /\ tables \in GenTables
    /\ GenIdle
    /\ call = NoCall
    /\ ret = Ok("")
    /\ main = NoMain

Next ==
    \/ generate_batch \/ generate_one \/ ReturnSample \/ BatchDone
    \/ S_header \/ S_doc_type \/ S_id \/ S_nationality \/ S_names \/ S_code
    \/ S_signature_noise \/ S_name \/ S_social \/ S_given \/ S_gender \/ S_birth_date
    \/ S_birth_place \/ S_height \/ S_signature
    \/ B_header \/ B_doc_type \/ B_name \/ B_given \/ B_labels \/ B_gender
    \/ B_nationality \/ B_birth_date \/ B_birth_place \/ B_alt_name \/ B_dni
    \/ B_expiry \/ B_support

Spec == Init /\ [][Next]_vars

(***************************************************************************)
(* The constructor and main().  A configuration file is a dict, held as a  *)
(* sequence of <<key, value>> pairs; its probabilities are written in      *)
(* thousandths (0.015 is 15).  A value of a probability table that may be  *)
(* a number or a dict carries its kind: [kind |-> "number", number |-> n]  *)
(* or [kind |-> "dict", items |-> pairs].  noise_level None is "".         *)
(***************************************************************************)
AVAILABLE_LOCALES ==
    <<"fr_FR", "ar_EG", "ar_SA", "pt_BR", "pt_PT", "es_ES", "zh_CN", "vi_VN", "de_DE",
      "it_IT", "en_US", "en_GB", "ja_JP", "ko_KR", "ru_RU", "nl_NL", "pl_PL", "tr_TR",
      "sv_SE", "no_NO">>

\* the probabilities of a preset `settings`, with the defaults of settings.get
PresetSettings(settings, enabled) ==
    [noise_enabled |-> enabled,
     global_prob |-> Get(settings, "global_probability", 150),
     word_noise_prob |-> Get(settings, "word_noise", 100),
     spacing_noise_prob |-> Get(settings, "spacing_noise", 80),
     char_sub_prob |-> Get(settings, "char_substitution", 50),
     extra_char_prob |-> Get(settings, "char_extra", 20),
     missing_char_prob |-> Get(settings, "char_missing", 15),
     double_char_prob |-> Get(settings, "char_double", 20)]

\* "Default to medium"
MediumDefaults ==
    [noise_enabled |-> TRUE, global_prob |-> 150, word_noise_prob |-> 100,
     spacing_noise_prob |-> 80, char_sub_prob |-> 50, extra_char_prob |-> 20,
     missing_char_prob |-> 15, double_char_prob |-> 20]

RECURSIVE FirstEnabled(_, _)
\* for name, settings in presets.items(): ... from entry i on, then the default
FirstEnabled(presets, i) ==
    IF i > Len(presets) THEN MediumDefaults
    ELSE LET name == presets[i][1]
             settings == presets[i][2]
         IN IF Get(settings, "enabled", FALSE)
            THEN (IF name = "clean" THEN CleanNoise ELSE PresetSettings(settings, TRUE))
            ELSE FirstEnabled(presets, i + 1)

\* _load_from_config
_load_from_config(config) ==
    LET custom == Get(config, "custom_settings", <<>>)
    IN IF Get(custom, "use_custom", FALSE)
       THEN [noise_enabled |-> TRUE,
             global_prob |-> Get(custom, "global_probability", 150),
             word_noise_prob |-> Get(custom, "word_noise_probability", 100),
             spacing_noise_prob |-> Get(custom, "spacing_noise_probability", 80),
             char_sub_prob |-> Get(custom, "character_substitution_probability", 50),
             extra_char_prob |-> Get(custom, "extra_char_probability", 20),
             missing_char_prob |-> Get(custom, "missing_char_probability", 15),
             double_char_prob |-> Get(custom, "double_char_probability", 20)]
       ELSE FirstEnabled(Get(config, "noise_presets", <<>>), 1)

\* _load_noise_settings(noise_level): the attributes it leaves on self
_load_noise_settings(config, noise_level) ==
    IF noise_level # "" /\ noise_level # "config"
    THEN LET presets == Get(config, "noise_presets", <<>>)
         IN IF HasKey(presets, noise_level)
            THEN LET settings == Lookup(presets, noise_level)
                 IN IF noise_level = "clean" THEN CleanNoise
                    ELSE PresetSettings(settings, Get(settings, "enabled", TRUE))
            ELSE _load_from_config(config)
    ELSE _load_from_config(config)

RECURSIVE Extract(_, _, _)
\* the "backward compatibility" loops of __init__: entry i on of a table whose
\* values are numbers or dicts holding the number under `key`; "comment" is skipped
Extract(table, key, i) ==
    IF i > Len(table) THEN <<>>
    ELSE LET k == table[i][1]
             value == table[i][2]
         IN IF k = "comment" THEN Extract(table, key, i + 1)
            ELSE << <<k, IF value.kind = "dict" /\ HasKey(value.items, key)
                         THEN Lookup(value.items, key) ELSE value.number>> >>
                 \o Extract(table, key, i + 1)

RECURSIVE ExtractPatterns(_, _)
\* for format_type, patterns in signature_patterns.items(): ... from entry i on
ExtractPatterns(signature_patterns, i) ==
    IF i > Len(signature_patterns) THEN <<>>
    ELSE LET format_type == signature_patterns[i][1]
             patterns == signature_patterns[i][2]
         IN IF format_type = "comment" THEN ExtractPatterns(signature_patterns, i + 1)
            ELSE << <<format_type, Extract(patterns, "weight", 1)>> >>
                 \o ExtractPatterns(signature_patterns, i + 1)

\* the lookup tables __init__ takes from self.config
LoadTables(config) ==
    LET field_probs == Get(config, "field_generation_probabilities", <<>>)
    IN [word_replacements |-> Get(config, "word_replacements", <<>>),
        spacing_errors |-> Get(config, "spacing_errors", <<>>),
        char_subs |-> Get(config, "character_substitutions", <<>>),
        extra_chars |-> Get(config, "extra_chars_pool", <<" ", ".", ",", "-">>),
        field_typos |-> Get(config, "field_typos", <<>>),
        simple_probs |-> Extract(Get(field_probs, "simple_format", <<>>), "probability", 1),
        bilingual_probs |->
            Extract(Get(field_probs, "bilingual_format", <<>>), "probability", 1),
        signature_noise |->
            ExtractPatterns(Get(field_probs, "signature_noise_patterns", <<>>), 1)]

\* self.locales = locales or [...]
DefaultLocales == <<"fr_FR", "ar_EG", "pt_PT", "zh_CN", "es_ES">>

RECURSIVE SplitFrom(_, _, _, _)
\* text.split(sep) for a one-character sep, from 0-based index i on, `cur` being
\* the piece read so far
SplitFrom(text, sep, i, cur) ==
    IF i >= Len(text) THEN <<cur>>
    ELSE IF CharAt(text, i) = sep THEN <<cur>> \o SplitFrom(text, sep, i + 1, "")
    ELSE SplitFrom(text, sep, i + 1, cur \o CharAt(text, i))
Split(text, sep) == SplitFrom(text, sep, 0, "")

\* loc in FakerIDGenerator.AVAILABLE_LOCALES
Available(loc) == \E i \in 1..Len(AVAILABLE_LOCALES) : AVAILABLE_LOCALES[i] = loc

\* [loc.strip() for loc in args.locales.split(",")]
ParseLocales(locales_arg) ==
    LET pieces == Split(locales_arg, ",")
    IN [i \in 1..Len(pieces) |-> Strip(pieces[i])]

\* [loc for loc in locales if loc not in FakerIDGenerator.AVAILABLE_LOCALES]
InvalidOf(locales) == SelectSeq(locales, LAMBDA loc : ~Available(loc))

\* noise presets of a configuration file
PresetsMediumOn ==
    << <<"clean", << <<"enabled", FALSE>> >> >>,
       <<"light", << <<"enabled", FALSE>>, <<"global_probability", 50>>,
                     <<"word_noise", 30>> >> >>,
       <<"medium", << <<"enabled", TRUE>>, <<"global_probability", 150>>,
                      <<"char_double", 25>> >> >>,
       <<"heavy", << <<"enabled", FALSE>>, <<"global_probability", 400>>,
                     <<"word_noise", 300>>, <<"spacing_noise", 200>>,
                     <<"char_substitution", 100>>, <<"char_extra", 60>>,
                     <<"char_missing", 40>>, <<"char_double", 50>> >> >> >>
\* the same with "heavy" flagged instead of "medium"
PresetsHeavyOn ==
    [PresetsMediumOn EXCEPT ![3][2][1][2] = FALSE, ![4][2][1][2] = TRUE]
\* the same with "clean" flagged as well, before the others
PresetsCleanOn == [PresetsMediumOn EXCEPT ![1][2][1][2] = TRUE]
\* presets without enabled flags, and no "light" preset
PresetsNoFlags ==
    << <<"medium", << <<"global_probability", 150>> >> >>,
       <<"heavy", << <<"global_probability", 400>>, <<"char_missing", 40>> >> >> >>
PresetTables == {PresetsMediumOn, PresetsHeavyOn, PresetsCleanOn, PresetsNoFlags}

\* the custom_settings section
CustomOn ==
    << <<"use_custom", TRUE>>, <<"global_probability", 900>>,
       <<"word_noise_probability", 10>>, <<"double_char_probability", 700>> >>
CustomOff == [CustomOn EXCEPT ![1][2] = FALSE]
CustomSections == {CustomOn, CustomOff}

\* the field_generation_probabilities section, in both forms of an entry
FieldProbs ==
    << <<"simple_format",
         << <<"comment", [kind |-> "number", number |-> 0]>>,
            <<"height", [kind |-> "number", number |-> 600]>>,
            <<"birth_place", [kind |-> "dict", items |-> << <<"probability", 800>>,
                                                            <<"comment", 0>> >>]>> >> >>,
       <<"signature_noise_patterns",
         << <<"simple_format",
              << <<"RF ", [kind |-> "dict", items |-> << <<"weight", 300>> >>]>>,
                 <<"none", [kind |-> "number", number |-> 700]>> >> >> >> >> >>

\* configuration files: every presets table with every custom section, one
\* with field probabilities, one with presets only, and an empty one
Configs ==
    { << <<"noise_presets", presets>>, <<"custom_settings", custom>> >> :
          presets \in PresetTables, custom \in CustomSections }
    \cup { << <<"noise_presets", PresetsMediumOn>>,
              <<"field_generation_probabilities", FieldProbs>>,
              <<"extra_chars_pool", <<".">> >> >>,
           << <<"custom_settings", CustomOn>> >>,
           <<>> }

\* what --locales may carry
LocaleArgs ==
    {"fr_FR,es_ES,it_IT", "fr_FR", "fr_FR, ar_EG", "xx_XX", "fr_FR,xx_XX", "", "fr_FR,",
     "FR_fr", " zh_CN ,yy_YY,zz_ZZ"}
\* choices of --noise-level
NoiseLevelChoices == {"clean", "light", "medium", "heavy", "config"}
\* noise_level of a direct constructor call
NoiseLevels == NoiseLevelChoices \cup {"", "bogus"}

\* args = parser.parse_args(): a run of main() starts
MainStarts ==
    { [NoMain EXCEPT !.pc = "main", !.entry = "main", !.list_locales = l, !.all_locales = a,
                     !.locales_arg = s, !.noise_level = n, !.count = c, !.config = f] :
          l \in BOOLEAN, a \in BOOLEAN, s \in LocaleArgs, n \in NoiseLevelChoices,
          c \in 0..MaxCount, f \in Configs }
\* FakerIDGenerator(config_path, noise_level) is about to be called directly
DirectStarts ==
    { [NoMain EXCEPT !.pc = "new", !.entry = "new", !.noise_level = n, !.config = f] :
          n \in NoiseLevels, f \in Configs }

InitMain ==
    /\ noise = CleanNoise
    /\ tables = EmptyTables
    /\ GenIdle
    /\ call = NoCall
    /\ ret = Ok("")
    /\ main \in MainStarts \cup DirectStarts

MainFrame ==
    UNCHANGED <<pc, fmt, parts, entities, pos, surname, given_names_list, results,
                remaining, deviations, segment, call, ret>>

\* FakerIDGenerator.__init__(config_path, noise_level, locales)
__init__(noise_level, locales) ==
    /\ noise' = _load_noise_settings(main.config, noise_level)
    /\ tables' = LoadTables(main.config)
    /\ main' = [main EXCEPT !.pc = IF main.pc = "new" THEN "done" ELSE "generate",
                            !.locales = IF locales = <<>> THEN DefaultLocales ELSE locales,
                            !.generator = TRUE]

\* a direct call of the constructor
New ==
    /\ main.pc = "new"
    /\ __init__(main.noise_level, <<>>)
    /\ MainFrame

\* if args.list_locales: ... return
M_list_locales ==
    /\ main.pc = "main"
    /\ main.list_locales
    /\ main' = [main EXCEPT !.pc = "done", !.returned = "None"]
    /\ UNCHANGED <<noise, tables>>
    /\ MainFrame

\* if args.all_locales: locales = list(FakerIDGenerator.AVAILABLE_LOCALES.keys())
M_all_locales ==
    /\ main.pc = "main"
    /\ ~main.list_locales
    /\ main.all_locales
    /\ main' = [main EXCEPT !.pc = "construct", !.locales = AVAILABLE_LOCALES]
    /\ UNCHANGED <<noise, tables>>
    /\ MainFrame

\* else: locales = [loc.strip() ...]; invalid = [...]
M_parse_locales ==
    /\ main.pc = "main"
    /\ ~main.list_locales
    /\ ~main.all_locales
    /\ LET locales == ParseLocales(main.locales_arg)
           invalid == InvalidOf(locales)
       IN main' = [main EXCEPT !.pc = IF invalid # <<>> THEN "invalid" ELSE "construct",
                               !.locales = locales]
    /\ UNCHANGED <<noise, tables>>
    /\ MainFrame

\* M_invalid going on to the constructor after the report
M_invalid_no_return ==
    /\ main.pc = "invalid"
    /\ main' = [main EXCEPT !.pc = "construct", !.invalid = InvalidOf(main.locales)]
    /\ UNCHANGED <<noise, tables>>
    /\ MainFrame

\* if invalid: print(...); return 1
M_invalid ==
    /\ main.pc = "invalid"
    /\ main' = [main EXCEPT !.pc = "done", !.invalid = InvalidOf(main.locales),
                            !.returned = "1"]
    /\ UNCHANGED <<noise, tables>>
    /\ MainFrame

\* generator = FakerIDGenerator(config_path=args.config, noise_level=..., locales=locales)
M_construct ==
    /\ main.pc = "construct"
    /\ __init__(IF main.noise_level # "config" THEN main.noise_level ELSE "", main.locales)
    /\ MainFrame

\* results = generator.generate_batch(args.count), which returns or raises
M_generate ==
    /\ main.pc = "generate"
    /\ \E raises \in (IF main.count > 0 THEN BOOLEAN ELSE {FALSE}) :
         main' = [main EXCEPT !.pc = IF raises THEN "done" ELSE "write",
                              !.batches = main.batches + 1,
                              !.returned = IF raises THEN "raised" ELSE ""]
    /\ UNCHANGED <<noise, tables>>
    /\ MainFrame

\* json.dump(results, f, ...) and the statistics; main returns None
M_write ==
    /\ main.pc = "write"
    /\ main' = [main EXCEPT !.pc = "done", !.written = TRUE, !.returned = "None"]
    /\ UNCHANGED <<noise, tables>>
    /\ MainFrame

NextMain ==
    \/ New \/ M_list_locales \/ M_all_locales \/ M_parse_locales \/ M_invalid
    \/ M_construct \/ M_generate \/ M_write

SpecMain == InitMain /\ [][NextMain]_vars

(***************************************************************************)
(* Properties                                                              *)
(***************************************************************************)
Labels(es) == {es[j].label : j \in 1..Len(es)}
SeqRange(q) == {q[j] : j \in 1..Len(q)}

\* C1: every entity [start, end, label, value] of every collected sample
\* satisfies text[start:end] == value on the joined text, as verify_positions
\* checks it, whatever noise did to the segments.
C1_SpanCorrectness ==
    \A i \in 1..Len(results) : \A j \in 1..Len(results[i].entities) :
        LET e == results[i].entities[j]
        IN Slice(results[i].text, e.start, e.end) = e.value

\* a sample whose header was emptied by noise and that still carries every
\* unconditional entity after it
C1_Witness ==
    \E i \in 1..Len(results) :
        /\ Len(results[i].entities) >= 7
        /\ results[i].entities[1] = Ent(0, 0, "Country", "")
        /\ results[i].entities[2].start = 1

AllLabelsLiteral(text, labels) == \A l \in labels : Contains(text, l)

\* C2: with the clean configuration every label of a returned sample is exactly
\* its template literal.
C2_CleanLabelsLiteral ==
    (pc = "return" /\ noise = CleanNoise) =>
        IF fmt = "simple"
        THEN AllLabelsLiteral(Join(parts),
                 {" N* : ", " Nationalit@ ", "Nom : ", " Pr@nom(s): ", " Sexe : ",
                  " N@(e) le : "})
        ELSE AllLabelsLiteral(Join(parts),
                 {" FR ", " NOM/Sumame ", " Pr@noms / Given names ", " SEXE /Sex ",
                  " NATIONALIT& / Nationality ", "DATE DE NAISS. / Date of birth "})

AllZero ==
    /\ noise.global_prob = 0 /\ noise.word_noise_prob = 0 /\ noise.spacing_noise_prob = 0
    /\ noise.char_sub_prob = 0 /\ noise.extra_char_prob = 0
    /\ noise.missing_char_prob = 0 /\ noise.double_char_prob = 0

\* C3: apply_noise returns its text unchanged when noise is disabled, when
\* allow_noise is false, when the gate draw exceeds the global probability, and
\* when all seven probabilities are zero, whatever the draws (0.0 included).
C3_ApplyNoiseIdentity ==
    (/\ call.fn = "apply_noise"
     /\ \/ ~noise.noise_enabled
        \/ ~call.allow_noise
        \/ call.dr.gate > noise.global_prob
        \/ AllZero)
    => ret = Ok(call.text)

\* noise enabled with all probabilities zero, every draw exactly 0.0, on a text
\* the word table matches
C3_Witness ==
    /\ call.fn = "apply_noise" /\ call.allow_noise /\ call.text = "la"
    /\ noise = ZeroNoise /\ tables = ShortTables
    /\ call.dr.gate = 0 /\ call.dr.word = 0 /\ call.dr.spacing = 0 /\ call.dr.char = 0
    /\ ret = Ok("la")

RECURSIVE CumulativeWeight(_, _)
CumulativeWeight(d, i) == IF i = 0 THEN 0 ELSE CumulativeWeight(d, i - 1) + d[i][2]

\* C4: over a non-empty table _weighted_choice returns the first key whose
\* cumulative probability meets or exceeds the draw, and the last key when no
\* cumulative probability reaches the draw; it never raises.
C4_WeightedChoice ==
    (call.fn = "_weighted_choice" /\ Len(call.choices_dict) > 0) =>
        LET d == call.choices_dict
            hits == {i \in 1..Len(d) : CumulativeWeight(d, i) >= call.rand_val}
        IN /\ ~ret.raised
           /\ hits # {} => ret.value = d[CHOOSE i \in hits : \A j \in hits : i <= j][1]
           /\ hits = {} => ret.value = d[Len(d)][1]

\* a draw beyond the mass of a table that sums to less than 1
C4_Witness ==
    /\ call.fn = "_weighted_choice"
    /\ call.choices_dict = << <<"none", 2>>, <<"RF ", 0>>, <<"3F ", 3>> >>
    /\ call.rand_val = 8
    /\ ret = Ok("3F ")

\* C5: no noise or inclusion decision raises, whichever lookup table is empty.
C5_NoRaise == pc # "raised" /\ ~ret.raised

\* C6: apply_field_typo returns a variant of the exact key when the label is a
\* key of field_typos, even when another key is a substring of the label;
\* replaces the first substring key only when there is no exact key; and is
\* apply_noise when no key matches.
C6_FieldTypoOrder ==
    call.fn = "apply_field_typo" =>
        LET t == call.text
            ft == tables.field_typos
            exact == {i \in 1..Len(ft) : ft[i][1] = t}
            partial == {i \in 1..Len(ft) : Contains(t, ft[i][1])}
        IN /\ exact # {} =>
                \E i \in exact : ret \in {Ok(v) : v \in SeqRange(ft[i][2])}
           /\ (exact = {} /\ partial # {}) =>
                LET i == CHOOSE k \in partial : \A j \in partial : k <= j
                IN ret \in {Ok(Replace(t, ft[i][1], v)) : v \in SeqRange(ft[i][2])}
           /\ partial = {} => ret = apply_noise(t, TRUE, call.dr)

\* the label "la" is a key, and the key "l", earlier in the table, occurs in it
C6_Witness ==
    /\ call.fn = "apply_field_typo" /\ call.text = "la"
    /\ tables = ShortTablesSwapped
    /\ ret = Ok("1a")

IsGivenName(e) == Slice(e.label, 0, 8) = "Surname_"

\* C7: a returned sample with n given names (1..3 Simple, 1..2 Bilingual) has
\* exactly the given-name entities Surname_1 .. Surname_n, in that order, which
\* is their left-to-right order in the text.
C7_GivenNameIndexing ==
    pc = "return" =>
        LET g == SelectSeq(entities, IsGivenName)
            n == Len(given_names_list)
        IN /\ n \in 1..(IF fmt = "simple" THEN 3 ELSE 2)
           /\ Len(g) = n
           /\ \A k \in 1..n : /\ g[k].label = "Surname_" \o ToString(k)
                              /\ g[k].value = given_names_list[k]
           /\ \A k \in 1..(n - 1) : g[k].end < g[k + 1].start

\* a Simple sample with three given names
C7_Witness ==
    /\ pc = "return" /\ fmt = "simple" /\ Len(given_names_list) = 3
    /\ "Surname_3" \in Labels(entities)

RequiredSimple ==
    {"Country", "DOC_TYPE", "DNI", "Nationality", "Name", "Gender", "Date of birthday"}

\* C8: every result of generate_simple_format has an entity for each of the
\* seven unconditional labels; Birth_place, Height and Alt_name are absent when
\* no inclusion draw can succeed (probability 0).
C8_SimpleRequired ==
    (pc = "return" /\ fmt = "simple") =>
        /\ RequiredSimple \subseteq Labels(entities)
        /\ Get(tables.simple_probs, "birth_place", 8) = 0 => "Birth_place" \notin Labels(entities)
        /\ Get(tables.simple_probs, "height", 6) = 0 => "Height" \notin Labels(entities)
        /\ Get(tables.simple_probs, "social_status_fields", 3) = 0
               => "Alt_name" \notin Labels(entities)

\* a Simple result with only the unconditional entities, under a configuration
\* whose optional fields are switched off
C8_Witness ==
    /\ pc = "return" /\ fmt = "simple" /\ tables = NoOptionalTables
    /\ Labels(entities) = RequiredSimple \cup {"Surname_1"}

\* C9: the entity list of every collected sample is in left-to-right text
\* order: end_i <= start_(i+1), and 0 <= start <= end <= len(text).
C9_EntityOrder ==
    \A i \in 1..Len(results) :
        LET es == results[i].entities
        IN /\ \A j \in 1..Len(es) :
                0 <= es[j].start /\ es[j].start <= es[j].end
                /\ es[j].end <= Len(results[i].text)
           /\ \A j \in 1..(Len(es) - 1) : es[j].end <= es[j + 1].start

\* a Bilingual sample whose header noise lengthened
C9_Witness ==
    \E i \in 1..Len(results) :
        /\ Len(results[i].entities) >= 7
        /\ results[i].entities[1].end > 20
        /\ results[i].entities[2].start = results[i].entities[1].end + 4

\* the output the claim gives character i (1-based) of the text
ClaimedPiece(text, cd, i) ==
    LET char == CharAt(text, i - 1)
        d == CharDrawAt(cd, i)
        emitted == IF HasKey(tables.char_subs, char) /\ d.sub < noise.char_sub_prob
                   THEN Lookup(tables.char_subs, char) ELSE char
    IN IF d.miss < noise.missing_char_prob THEN ""
       ELSE emitted
            \o (IF d.dbl < noise.double_char_prob THEN emitted ELSE "")
            \o (IF d.extra < noise.extra_char_prob
                THEN Choice(tables.extra_chars, d.pick).value ELSE "")

\* C10: _apply_character_noise handles each character by drop, substitute,
\* emit, duplicate, insert, the duplicate being a second copy of the character
\* just emitted (the substitute when substitution fired).
C10_CharacterNoiseOrder ==
    (call.fn = "_apply_character_noise" /\ ~ret.raised) =>
        ret.value = Join([i \in 1..Len(call.text) |->
                            ClaimedPiece(call.text, call.dr.cd, i)])
\* the entity labels a Bilingual sample with n given names may carry, in order
BilingualLabelOrders(n) ==
    { <<"Country", "DOC_TYPE", "Name">> \o [k \in 1..n |-> "Surname_" \o ToString(k)]
        \o <<"Gender", "Nationality", "Date of birthday">> \o place \o alt
        \o <<"DNI">> \o validity \o support :
          place \in {<<>>, <<"Birth_place">>}, alt \in {<<>>, <<"Alt_name">>},
          validity \in {<<>>, <<"Validity_date">>}, support \in {<<>>, <<"Support_number">>} }

\* C11: in every result of generate_bilingual_format the gender label, the
\* nationality label and the birth-date label are three consecutive parts that
\* come right after the given names, the next three parts are the gender, the
\* nationality and the birth-date values (each entity starting where its part
\* starts), and the entity labels are in the order Country, DOC_TYPE, Name,
\* Surname_1.., Gender, Nationality, Date of birthday, [Birth_place],
\* [Alt_name], DNI, [Validity_date], [Support_number].
C11_BilingualBlockOrder ==
    (pc = "return" /\ fmt = "bilingual") =>
        LET n == Len(given_names_list)
            b == 5 + 2 * n        \* parts up to the last given name
            g == 3 + n            \* entities up to the last given name
            At(k) == Len(Join(SubSeq(parts, 1, k)))
        IN /\ Len(parts) >= b + 6 /\ Len(entities) >= g + 3
           /\ entities[g].end = At(b)
           /\ parts[b + 3] = "DATE DE NAISS. / Date of birth "
           /\ entities[g + 1].start = At(b + 3)
           /\ parts[b + 4] = entities[g + 1].value \o " "
           /\ entities[g + 2].start = At(b + 4)
           /\ parts[b + 5] = entities[g + 2].value \o " "
           /\ entities[g + 3].start = At(b + 5)
           /\ parts[b + 6] = entities[g + 3].value
           /\ [j \in 1..Len(entities) |-> entities[j].label] \in BilingualLabelOrders(n)

\* a Bilingual result whose gender label a field typo changed
C11_Witness ==
    /\ pc = "return" /\ fmt = "bilingual" /\ Len(given_names_list) = 1
    /\ parts[8] # " SEXE /Sex "
    /\ parts[10] = "DATE DE NAISS. / Date of birth "
Requested(m) == IF m.all_locales THEN AVAILABLE_LOCALES ELSE ParseLocales(m.locales_arg)

\* C13: in a run of main() whose requested locales (the stripped pieces of
\* --locales, or the whole table under --all-locales) include one that is not
\* in AVAILABLE_LOCALES, no generator is constructed, generate_batch is not
\* called and no file is written, and main ends by reporting exactly the
\* invalid locales and returning 1; a generator is only ever constructed
\* with supported locales.
C13_InvalidLocaleRejected ==
    main.entry = "main" =>
        LET bad == InvalidOf(Requested(main))
        IN /\ bad # <<>> =>
                /\ ~main.generator /\ main.batches = 0 /\ ~main.written
                /\ (main.pc = "done" /\ ~main.list_locales)
                       => (main.returned = "1" /\ main.invalid = bad)
           /\ main.generator => InvalidOf(main.locales) = <<>>

\* main returned 1 after reporting two invalid locales out of three requested
C13_Witness ==
    /\ main.entry = "main" /\ main.pc = "done" /\ main.returned = "1"
    /\ Len(main.locales) = 3 /\ main.invalid = <<"yy_YY", "zz_ZZ">> /\ main.count > 0
\* the settings the stated precedence gives for `config` and `noise_level`
ClaimedSettings(config, noise_level) ==
    LET presets == Get(config, "noise_presets", <<>>)
        custom == Get(config, "custom_settings", <<>>)
        flagged == {i \in 1..Len(presets) : Get(presets[i][2], "enabled", FALSE)}
        first == CHOOSE i \in flagged : \A j \in flagged : i <= j
        Use(name, settings) == IF name = "clean" THEN CleanNoise
                               ELSE PresetSettings(settings, TRUE)
    IN IF noise_level \notin {"", "config"} /\ HasKey(presets, noise_level)
       THEN Use(noise_level, Lookup(presets, noise_level))
       ELSE IF Get(custom, "use_custom", FALSE)
       THEN [noise_enabled |-> TRUE,
             global_prob |-> Get(custom, "global_probability", 150),
             word_noise_prob |-> Get(custom, "word_noise_probability", 100),
             spacing_noise_prob |-> Get(custom, "spacing_noise_probability", 80),
             char_sub_prob |-> Get(custom, "character_substitution_probability", 50),
             extra_char_prob |-> Get(custom, "extra_char_probability", 20),
             missing_char_prob |-> Get(custom, "missing_char_probability", 15),
             double_char_prob |-> Get(custom, "double_char_probability", 20)]
       ELSE IF flagged # {} THEN Use(presets[first][1], presets[first][2])
       ELSE MediumDefaults

\* C18: a constructed generator has the settings of the named preset when
\* noise_level names one (noise off and all zero for "clean", the preset in
\* use otherwise), whatever custom_settings and the enabled flags say; else
\* the custom settings when use_custom, else the first flagged preset in table
\* order, else the medium defaults.
C18_NoisePrecedence ==
    main.generator =>
        noise = ClaimedSettings(main.config,
                                IF main.entry = "main" /\ main.noise_level = "config"
                                THEN "" ELSE main.noise_level)
\* C14: no step of generate_batch, generate_one or a format generator changes
\* noise_enabled, the seven probabilities or a lookup table; generate_one
\* starts every sample with parts = [], entities = [] and pos = 0; and every
\* collected sample holds one Country entity, its first, starting at 0, so
\* nothing of an earlier sample or an earlier call is in it.
C14_NoLeak ==
    [][ /\ noise' = noise /\ tables' = tables
        /\ (pc = "one" /\ pc' \in {"S_header", "B_header"})
               => (parts' = <<>> /\ entities' = <<>> /\ pos' = 0)
        /\ \A i \in 1..Len(results') :
               LET es == results'[i].entities
               IN /\ es[1].label = "Country" /\ es[1].start = 0
                  /\ Cardinality({j \in 1..Len(es) : es[j].label = "Country"}) = 1
      ]_vars

\* a later generate_batch call is building its sample: the names of the
\* sample before are still around, and the new sample holds its header only
C14_Witness ==
    /\ pc = "S_doc_type" /\ results = <<>> /\ surname = "MARTIN"
    /\ noise = HeavyNoise /\ Len(entities) = 1 /\ entities[1].start = 0
    /\ pos = Len(Join(parts))
RECURSIVE BoundariesFrom(_, _)
BoundariesFrom(ps, at) ==
    IF ps = <<>> THEN {at} ELSE {at} \cup BoundariesFrom(Tail(ps), at + Len(Head(ps)))
\* the lengths of the text after 0, 1, ... of the parts appended so far
Boundaries(ps) == BoundariesFrom(ps, 0)

\* C15: at every step of both format generators pos is the length of the
\* joined parts; every entity recorded so far starts where a part starts
\* (the cursor after the label before it was appended), ends start + len(value)
\* within the text so far, and covers its value as appended.
C15_CursorLockstep ==
    LET text == Join(parts)
        starts == Boundaries(parts)
    IN /\ pos = Len(text)
       /\ \A j \in 1..Len(entities) :
              LET e == entities[j]
              IN /\ e.start \in starts
                 /\ e.end = e.start + Len(e.value)
                 /\ e.end <= pos
                 /\ Slice(text, e.start, e.end) = e.value

\* a Simple sample in the making whose id label came out of noise with
\* another length than its literal
C15_Witness ==
    /\ pc = "S_nationality" /\ Len(entities) = 3
    /\ entities[3].start - entities[2].end # Len(" N* : ")
    /\ pos = entities[3].end /\ entities[3].label = "DNI"
\* C16: right after a Simple sample's two-letter code was included, the last
\* part is the code and one space, three characters, starting right after the
\* space that follows the Nationality value; its characters are the first of
\* surname ("A" for an empty one) and the first of given_names_list[0]; and
\* the Name and Surname_1 entities of the sample carry exactly that surname
\* and that given name.
C16_TwoLetterCode ==
    /\ (pc = "S_signature_noise" /\ segment.at = "S_code" /\ segment.included) =>
           LET code == parts[Len(parts)]
               nat == entities[Len(entities)]
           IN /\ Len(code) = 3 /\ CharAt(code, 2) = " "
              /\ CharAt(code, 0) = (IF surname = "" THEN "A" ELSE CharAt(surname, 0))
              /\ CharAt(code, 1) = CharAt(given_names_list[1], 0)
              /\ nat.label = "Nationality"
              /\ CharAt(Join(parts), nat.end) = " "
              /\ Slice(Join(parts), nat.end + 1, pos) = code
    /\ fmt = "simple" =>
           \A j \in 1..Len(entities) :
               /\ entities[j].label = "Name" => entities[j].value = surname
               /\ entities[j].label = "Surname_1" => entities[j].value = given_names_list[1]

\* the code "MA " of MARTIN, ANA has just been appended
C16_Witness ==
    /\ pc = "S_signature_noise" /\ segment.at = "S_code" /\ segment.included
    /\ surname = "MARTIN" /\ given_names_list[1] = "ANA"
    /\ parts[Len(parts)] = "MA "

\* a stage of apply_noise on the outcome of the stage before it
WordStage(t, dr) ==
    IF t.raised THEN Raise
    ELSE IF dr.word < noise.word_noise_prob
         THEN ReplaceEach(t.value, tables.word_replacements, dr.wpick, 1) ELSE t
SpacingStage(t, dr) ==
    IF t.raised THEN Raise
    ELSE IF dr.spacing < noise.spacing_noise_prob
         THEN ReplaceEach(t.value, tables.spacing_errors, dr.spick, 1) ELSE t
CharStage(t, dr) ==
    IF t.raised THEN Raise
    ELSE IF dr.char < noise.char_sub_prob + noise.extra_char_prob + noise.missing_char_prob
         THEN CharNoiseFrom(t.value, dr.cd, 0) ELSE t

\* C17: past its gates apply_noise returns the character stage of the spacing
\* stage of the word stage of its text, each stage run only when its own draw
\* is below its probability; when char_sub_prob, extra_char_prob and
\* missing_char_prob are all zero the result is that of the first two stages,
\* so no character is duplicated whatever double_char_prob and the draws are.
C17_StageOrder ==
    (/\ call.fn = "apply_noise"
     /\ noise.noise_enabled /\ call.allow_noise /\ call.dr.gate <= noise.global_prob)
    => /\ ret = CharStage(SpacingStage(WordStage(Ok(call.text), call.dr), call.dr), call.dr)
       /\ (noise.char_sub_prob + noise.extra_char_prob + noise.missing_char_prob = 0)
              => ret = SpacingStage(WordStage(Ok(call.text), call.dr), call.dr)

\* all three stages ran on "la": the word stage made it "Ia", the spacing
\* stage "Ia ", and the character stage doubled every character of that
C17_Witness ==
    /\ call.fn = "apply_noise" /\ call.allow_noise /\ call.text = "la"
    /\ noise = HeavyNoise /\ tables = ShortTables
    /\ call.dr.gate = 0 /\ call.dr.word = 0 /\ call.dr.spacing = 0 /\ call.dr.char = 0
    /\ call.dr.wpick = 1 /\ call.dr.spick = 1
    /\ call.dr.cd = [head |-> <<>>, rest |-> [QuietChar EXCEPT !.dbl = 0]]
    /\ ret = Ok("IIaa  ")
====
